---- MODULE Spec2Model ----
(***************************************************************************)
(* The connection engine of tapvolt-app (src/src/services/connectionManager.ts):*)
(* the five-state connection machine, the reconnect scheduler, the         *)
(* heartbeat monitor, the action dispatcher and the lifecycle gate, driven *)
(* by caller operations, transport events, timer firings and host          *)
(* lifecycle events.  One action per public method, callback or resumed    *)
(* continuation.  JavaScript runs these to completion one at a time, so    *)
(* each is one atomic step; the only suspension points are the awaits of   *)
(* the device-identity resolution.                                         *)
(***************************************************************************)
EXTENDS Integers, Sequences, FiniteSets, TLC

(* ------------------------------------------------------------------------ *)
(* Program constants                                                        *)
(* ------------------------------------------------------------------------ *)
MAX_RECONNECT_ATTEMPTS == 10
MAX_RECONNECT_DELAY_MS == 10000
HEARTBEAT_TIMEOUT_MS == 15000
HEARTBEAT_CHECK_INTERVAL_MS == 1000
ACTION_TIMEOUT_MS == 8000
MAX_ACTION_STEPS == 50
MAX_TEXT_STEP_LENGTH == 1000
RECONNECT_BASE_DELAY_MS == 1000
COMPLETED_WINDOW == 500
HEARTBEAT_CLOSE_CODE == 4000

(* ------------------------------------------------------------------------ *)
(* Bounds of the model                                                      *)
(* ------------------------------------------------------------------------ *)
\* ids sendAction may mint in the general specification
MaxActions == 1
\* device-identity resolutions that may be suspended at the same time
MaxTasks == 1
\* reconnect timers armed in the burst scenario before the transport stays up
MaxBurstArms == 11
\* ids sendAction may mint in the completed-window scenario
MaxWindowActions == 502
\* ids whose timeout may fire in the completed-window scenario
MaxWindowTimeouts == 2
\* device-identity resolutions that may be suspended at once in the identity
\* scenario
MaxIdentityTasks == 2
\* half-periods of the heartbeat check that the server may stay silent in the
\* heartbeat scenario
MaxSilenceTicks == 34
MaxPendingActions == 1

(* ------------------------------------------------------------------------ *)
(* ConnectionState (enum, connectionManager.ts:8-14)                        *)
(* ------------------------------------------------------------------------ *)
DISCONNECTED == "DISCONNECTED"
CONNECTING == "CONNECTING"
CONNECTED == "CONNECTED"
RECONNECTING == "RECONNECTING"
ERROR == "ERROR"
ConnectionState == {CONNECTING, CONNECTED, RECONNECTING, DISCONNECTED, ERROR}

Min(a, b) == IF a <= b THEN a ELSE b

(* ------------------------------------------------------------------------ *)
(* Observable trace of one handler run: the observer callbacks it invokes   *)
(* and the calls it makes on the transport, in program order.               *)
(* ------------------------------------------------------------------------ *)
Ev(cb, code, msg, n) == [cb |-> cb, code |-> code, msg |-> msg, n |-> n, t |-> 0]
\* emitError(string): code CLIENT_ERROR
ClientError(msg) == Ev("onError", "CLIENT_ERROR", msg, 0)
\* emitError(payload)
PayloadError(code, msg) == Ev("onError", code, msg, 0)
OnStateChange(s, attempt) == Ev("onStateChange", s, "", attempt)
OnConnected == Ev("onConnected", "", "", 0)
OnDisconnected == Ev("onDisconnected", "", "", 0)
OnAuthSuccess == Ev("onAuthSuccess", "", "", 0)
OnAuthFailure == Ev("onAuthFailure", "", "", 0)
OnHeartbeat == Ev("onHeartbeat", "", "", 0)
OnWarning(msg) == Ev("onWarning", "", msg, 0)
OnActionTimeout(id) == Ev("onActionTimeout", "", "", id)
\* onActionResult(result): code is result.status, msg result.error, t result.executionTime
OnActionResult(id, status, time, error) == [Ev("onActionResult", status, error, id) EXCEPT !.t = time]
\* calls on the timer service; a clear carries what it cancelled (0: nothing live)
SetTimeout(what, delay) == Ev("setTimeout", what, "", delay)
SetInterval(what, period) == Ev("setInterval", what, "", period)
ClearTimeout(what, cancelled) == Ev("clearTimeout", what, "", cancelled)
ClearInterval(what, cancelled) == Ev("clearInterval", what, "", cancelled)
SockConnect(url) == Ev("socket.connect", url, "", 0)
SockDisconnect(code, reason) == Ev("socket.disconnect", "", reason, code)
SockSend(type, a, n) == Ev("socket.send", type, a, n)

IsCallback(e) ==
  e.cb \notin {"socket.connect", "socket.disconnect", "socket.send", "setTimeout",
               "setInterval", "clearTimeout", "clearInterval"}
Callbacks(evs) == SelectSeq(evs, IsCallback)

(* ------------------------------------------------------------------------ *)
(* isValidStateTransition                                                   *)
(* ------------------------------------------------------------------------ *)
IsValidStateTransition_AllowsReopen(current, next) ==
  \/ current = next
  \/ current = DISCONNECTED /\ next \in {CONNECTING, ERROR}
  \/ current = CONNECTING /\ next \in {CONNECTED, RECONNECTING, DISCONNECTED, ERROR}
  \/ current = CONNECTED /\ next \in {CONNECTING, RECONNECTING, DISCONNECTED, ERROR}
  \/ current = RECONNECTING /\ next \in {RECONNECTING, CONNECTED, DISCONNECTED, ERROR}
  \/ current = ERROR /\ next \in {CONNECTING, RECONNECTING, DISCONNECTED}

IsValidStateTransition(current, next) ==
  \/ current = next
  \/ current = DISCONNECTED /\ next \in {CONNECTING, ERROR}
  \/ current = CONNECTING /\ next \in {CONNECTED, RECONNECTING, DISCONNECTED, ERROR}
  \/ current = CONNECTED /\ next \in {RECONNECTING, DISCONNECTED, ERROR}
  \/ current = RECONNECTING /\ next \in {RECONNECTING, CONNECTED, DISCONNECTED, ERROR}
  \/ current = ERROR /\ next \in {CONNECTING, RECONNECTING, DISCONNECTED}

(* setState(next) run in state cur with the counter at attempt: the state  *)
(* it leaves and the observer calls it makes.                               *)
SetState_Forces(cur, next, attempt) ==
  IF ~IsValidStateTransition(cur, next)
    THEN [state |-> next,
          evs |-> <<ClientError("Illegal state transition: " \o cur \o " -> " \o next)>>]
    ELSE [state |-> next, evs |-> <<OnStateChange(next, attempt)>>]

SetState(cur, next, attempt) ==
  IF ~IsValidStateTransition(cur, next)
    THEN [state |-> cur,
          evs |-> <<ClientError("Illegal state transition: " \o cur \o " -> " \o next)>>]
    ELSE [state |-> next, evs |-> <<OnStateChange(next, attempt)>>]


(* ------------------------------------------------------------------------ *)
(* Inputs.  A raw string is kept by the parts the code inspects: whether it *)
(* has surrounding white space (removed by trim()), its ws:// or wss://     *)
(* prefix, and the rest.                                                    *)
(* ------------------------------------------------------------------------ *)
Raw(pad, scheme, body) == [pad |-> pad, scheme |-> scheme, body |-> body]
\* String.prototype.trim
Trim(raw) == [raw EXCEPT !.pad = FALSE]
IsEmptyString(raw) == ~raw.pad /\ raw.scheme = "" /\ raw.body = ""
Text(raw) == (IF raw.pad THEN " " ELSE "") \o raw.scheme \o raw.body \o (IF raw.pad THEN " " ELSE "")

\* the value of a null or empty string field
NULL == ""

\* no frame has been received yet
NoFrame == [fmt |-> "none"]

\* the arguments of connect(): empty, blank, a bare host and a padded ws:// URL
\* of the same desktop
RawUrls ==
  { Raw(FALSE, "", ""), Raw(TRUE, "", ""), Raw(FALSE, "", "192.168.1.20:8080"),
    Raw(TRUE, "ws://", "192.168.1.20:8080") }

RawClientIds == { Raw(FALSE, "", ""), Raw(TRUE, "", ""), Raw(TRUE, "", "tapvolt-mobile") }

\* toWsUrl(raw)
ToWsUrl(raw) ==
  LET trimmed == Trim(raw) IN
  IF trimmed.scheme = "ws://" \/ trimmed.scheme = "wss://"
    THEN Text(trimmed)
    ELSE "ws://" \o Text(trimmed)

(* A Step as sendAction receives it: its type tag, the length of a text     *)
(* step's value, and whether the fields its type requires have the right    *)
(* kind (validateStep).                                                     *)
Step(type, len, shaped) == [type |-> type, len |-> len, shaped |-> shaped]
Steps ==
  { Step("text", 3, TRUE), Step("text", MAX_TEXT_STEP_LENGTH + 1, TRUE),
    Step("command", 0, TRUE), Step("delay", 0, FALSE) }

(* ------------------------------------------------------------------------ *)
(* State                                                                    *)
(* ------------------------------------------------------------------------ *)
VARIABLES
  \* fields of ConnectionManager
  state, reconnectAttempt, reconnectTimer, heartbeatTimer, lastHeartbeat,
  pendingActions, completedActionIds, completedActionOrder, targetUrl,
  authClientId, authDeviceId, currentAppState, reconnectSuspended, actionNonce,
  \* the transport: [st, url], st in none / opening / open / failed
  sock,
  \* the timer service: delay of the live reconnect timeout (0: none), whether
  \* the heartbeat interval is live, the action ids whose timeout is live
  liveReconnect, liveHeartbeat, liveActionTimers,
  \* AsyncStorage's device id (0: none) and the suspended identity resolutions
  storage, tasks,
  \* the last handler run: [op, s, n] (its name and input) and its observable trace
  lastOp, events,
  \* ids handed to onActionResult / onActionTimeout so far, in order
  resultLog, timeoutLog,
  \* actionNonce at the last disconnect()
  disconnectedUpTo,
  \* "quiet": a backgrounded event was handled, and no foregrounded event and no
  \* connect() since; "touched": the same, but for a connect() since; else "none"
  background,
  \* transports opened by the reconnect timer since the last successful open
  \* or caller / lifecycle operation
  burstOpens,
  \* the ids that were in the pending map when a backgrounded event was handled
  abandoned,
  \* a disconnect() has been called and no connect() since
  idle,
  \* reconnect exhaustion has been reported and the caller has called neither
  \* connect() nor disconnect() since
  exhausted,
  \* the reconnect timers armed so far (burst scenario only): [ms, afterOpen],
  \* the delay, and whether the open attempt before it had opened
  delays,
  \* the trimmed client name passed to the most recent authenticate() call
  \* (identity scenario only)
  lastAuth,
  \* wall-clock time while the heartbeat interval is armed (heartbeat scenario
  \* only): [since, due], the ms since lastHeartbeat was marked and the ms
  \* until the interval fires next
  clock,
  \* the frame handed to handleSocketMessage last (message scenario only)
  lastFrame,
  \* disconnect() has been called and authenticate() has not been called
  \* since (session scenario only)
  signedOut

engine ==
  <<state, reconnectAttempt, reconnectTimer, heartbeatTimer, lastHeartbeat,
    pendingActions, completedActionIds, completedActionOrder, targetUrl,
    authClientId, authDeviceId, currentAppState, reconnectSuspended, actionNonce>>
world == <<sock, liveReconnect, liveHeartbeat, liveActionTimers, storage, tasks>>
history ==
  <<lastOp, events, resultLog, timeoutLog, disconnectedUpTo, background, burstOpens,
    abandoned, idle, exhausted>>
scenario == <<delays, lastAuth, clock, lastFrame, signedOut>>
vars == <<engine, world, history, scenario>>

AppStates == {"active", "background", "inactive"}

NoSocket == [st |-> "none", url |-> NULL]


(* ------------------------------------------------------------------------ *)
(* The transport adapter (SocketService).  connect() first disconnects;     *)
(* after disconnect() the prior instance delivers no further event; send()  *)
(* returns false unless the channel is open.                                *)
(* ------------------------------------------------------------------------ *)
SocketDisconnect(s) == NoSocket
SocketConnect(s, url) == [st |-> "opening", url |-> url]
SocketIsOpen(s) == s.st = "open"


(* ------------------------------------------------------------------------ *)
(* Private methods of ConnectionManager, as functions of the fields they    *)
(* read to the fields they write and the trace they leave.                  *)
(* ------------------------------------------------------------------------ *)
\* clearReconnectTimer: field is whether this.reconnectTimer is set, live the
\* delay of the timeout the timer service still holds for it (0: none)
ClearReconnectTimer_Keeps(field, live) ==
  [field |-> FALSE, live |-> live, evs |-> <<>>]

ClearReconnectTimer(field, live) ==
  IF ~field THEN [field |-> field, live |-> live, evs |-> <<>>]
  ELSE [field |-> FALSE, live |-> 0, evs |-> <<ClearTimeout("reconnect", live)>>]

\* clearHeartbeatTimer
ClearHeartbeatTimer_Keeps(field, live) ==
  [field |-> FALSE, live |-> live, evs |-> <<>>]

ClearHeartbeatTimer(field, live) ==
  IF ~field THEN [field |-> field, live |-> live, evs |-> <<>>]
  ELSE [field |-> FALSE, live |-> FALSE,
        evs |-> <<ClearInterval("heartbeat",
                                IF live THEN HEARTBEAT_CHECK_INTERVAL_MS ELSE 0)>>]

\* startHeartbeatTimer: replaces the interval
StartHeartbeatTimer_NotArmed(field, live) ==
  LET cht == ClearHeartbeatTimer(field, live)
  IN [field |-> cht.field, live |-> cht.live, evs |-> cht.evs]

StartHeartbeatTimer(field, live) ==
  LET cht == ClearHeartbeatTimer(field, live)
  IN [field |-> TRUE, live |-> TRUE,
      evs |-> cht.evs \o <<SetInterval("heartbeat", HEARTBEAT_CHECK_INTERVAL_MS)>>]

\* the keys of a Map in insertion order; ids are minted in increasing order
RECURSIVE InOrder(_)
InOrder(S) ==
  IF S = {} THEN <<>>
  ELSE LET least == CHOOSE x \in S : \A y \in S : x <= y
       IN <<least>> \o InOrder(S \ {least})

\* clearPendingActions: pending the keys of the map, live the live timeouts
ClearPendingActions_Skipped(pending, live) ==
  [pending |-> pending, live |-> live, evs |-> <<>>]

ClearPendingActions(pending, live) ==
  [pending |-> {}, live |-> live \ pending,
   evs |-> [i \in 1..Cardinality(pending) |->
              ClearTimeout("action", IF InOrder(pending)[i] \in live
                                       THEN InOrder(pending)[i] ELSE 0)]]

\* removePendingAction(actionId)
RemovePendingAction_KeepsEntry(pending, live, actionId) ==
  IF actionId \notin pending
    THEN [removed |-> FALSE, pending |-> pending, live |-> live, evs |-> <<>>]
    ELSE [removed |-> TRUE, pending |-> pending, live |-> live, evs |-> <<>>]

\* removePendingAction that reports a removal for an id it does not hold
RemovePendingAction_AnyId(pending, live, actionId) ==
  [removed |-> TRUE, pending |-> pending \ {actionId}, live |-> live \ {actionId},
   evs |-> <<ClearTimeout("action", IF actionId \in live THEN actionId ELSE 0)>>]

RemovePendingAction(pending, live, actionId) ==
  IF actionId \notin pending
    THEN [removed |-> FALSE, pending |-> pending, live |-> live, evs |-> <<>>]
    ELSE [removed |-> TRUE, pending |-> pending \ {actionId}, live |-> live \ {actionId},
          evs |-> <<ClearTimeout("action", IF actionId \in live THEN actionId ELSE 0)>>]

\* markActionCompleted(actionId)
MarkActionCompleted_Forgets(ids, order, actionId) ==
  [ids |-> ids, order |-> order]

MarkActionCompleted_EvictsNewest(ids, order, actionId) ==
  LET ids1 == ids \cup {actionId}
      order1 == Append(order, actionId)
  IN IF Len(order1) <= COMPLETED_WINDOW
       THEN [ids |-> ids1, order |-> order1]
       ELSE [ids |-> ids1 \ {order1[Len(order1)]}, order |-> SubSeq(order1, 1, Len(order1) - 1)]

MarkActionCompleted(ids, order, actionId) ==
  LET ids1 == ids \cup {actionId}
      order1 == Append(order, actionId)
  IN IF Len(order1) <= COMPLETED_WINDOW
       THEN [ids |-> ids1, order |-> order1]
       ELSE [ids |-> ids1 \ {Head(order1)}, order |-> Tail(order1)]

\* the delay scheduleReconnect computes for attempt k
ReconnectDelay_Uncapped(k) == RECONNECT_BASE_DELAY_MS * 2 ^ (k - 1)

ReconnectDelay_Early(k) == Min(RECONNECT_BASE_DELAY_MS * 2 ^ k, MAX_RECONNECT_DELAY_MS)

ReconnectDelay(k) == Min(RECONNECT_BASE_DELAY_MS * 2 ^ (k - 1), MAX_RECONNECT_DELAY_MS)

\* the attempt cap of scheduleReconnect
ReconnectExhausted(attempt) == attempt >= MAX_RECONNECT_ATTEMPTS

\* a scheduler that enters RECONNECTING without arming the timer
ScheduleReconnect_Unarmed(cur, attempt, url, suspended, field, live) ==
  IF url = NULL \/ suspended THEN
    LET ss == SetState(cur, DISCONNECTED, attempt)
    IN [state |-> ss.state, attempt |-> attempt, field |-> field, live |-> live,
        evs |-> ss.evs]
  ELSE IF ReconnectExhausted(attempt) THEN
    LET ss == SetState(cur, ERROR, attempt)
    IN [state |-> ss.state, attempt |-> attempt, field |-> field, live |-> live,
        evs |-> <<ClientError("Reconnect failed after 10 attempts.")>> \o ss.evs]
  ELSE
    LET attempt1 == attempt + 1
        delay == ReconnectDelay(attempt1)
        ss == SetState(cur, RECONNECTING, attempt1)
        crt == ClearReconnectTimer(field, live)
    IN [state |-> ss.state, attempt |-> attempt1, field |-> FALSE, live |-> 0,
        evs |-> ss.evs \o crt.evs]

\* scheduleReconnect
ScheduleReconnect(cur, attempt, url, suspended, field, live) ==
  IF url = NULL \/ suspended THEN
    LET ss == SetState(cur, DISCONNECTED, attempt)
    IN [state |-> ss.state, attempt |-> attempt, field |-> field, live |-> live,
        evs |-> ss.evs]
  ELSE IF ReconnectExhausted(attempt) THEN
    LET ss == SetState(cur, ERROR, attempt)
    IN [state |-> ss.state, attempt |-> attempt, field |-> field, live |-> live,
        evs |-> <<ClientError("Reconnect failed after 10 attempts.")>> \o ss.evs]
  ELSE
    LET attempt1 == attempt + 1
        delay == ReconnectDelay(attempt1)
        ss == SetState(cur, RECONNECTING, attempt1)
        crt == ClearReconnectTimer(field, live)
    IN [state |-> ss.state, attempt |-> attempt1, field |-> TRUE, live |-> delay,
        evs |-> ss.evs \o crt.evs \o <<SetTimeout("reconnect", delay)>>]

\* openSocket(nextState)
OpenSocket(nextState, cur, attempt, url, s) ==
  IF url = NULL THEN
    LET ss == SetState(cur, ERROR, attempt)
    IN [state |-> ss.state, sock |-> s,
        evs |-> <<ClientError("Missing target WebSocket URL.")>> \o ss.evs]
  ELSE
    LET ss == SetState(cur, nextState, attempt)
    IN [state |-> ss.state, sock |-> SocketConnect(s, url),
        evs |-> ss.evs \o <<SockConnect(url)>>]

\* send that reports nothing when the transport refuses the frame
Send_Quiet(s, frame) ==
  IF SocketIsOpen(s) THEN [sent |-> TRUE, evs |-> <<frame>>]
  ELSE [sent |-> FALSE, evs |-> <<>>]

\* send(message) for a message that passes the outbound validators: the
\* trace of socketService.send or of its failure
Send(s, frame) ==
  IF SocketIsOpen(s) THEN [sent |-> TRUE, evs |-> <<frame>>]
  ELSE [sent |-> FALSE, evs |-> <<ClientError("WebSocket is not connected.")>>]

(* ------------------------------------------------------------------------ *)
(* History                                                                  *)
(* ------------------------------------------------------------------------ *)
Op(op, s, n) == [op |-> op, s |-> s, n |-> n]

IdsOf(evs, cb) ==
  LET sel == SelectSeq(evs, LAMBDA e : e.cb = cb)
  IN [i \in 1..Len(sel) |-> sel[i].n]

Record(op, evs) ==
  /\ lastOp' = op
  /\ events' = evs
  /\ resultLog' = resultLog \o IdsOf(evs, "onActionResult")
  /\ timeoutLog' = timeoutLog \o IdsOf(evs, "onActionTimeout")
  /\ abandoned' = IF op.op = "backgrounded" THEN abandoned \cup pendingActions ELSE abandoned
  /\ idle' = IF op.op = "disconnect" THEN TRUE ELSE IF op.op = "connect" THEN FALSE ELSE idle
  /\ exhausted' =
       IF \E i \in 1..Len(evs) : evs[i] = ClientError("Reconnect failed after 10 attempts.")
         THEN TRUE
       ELSE IF op.op \in {"connect", "disconnect"} THEN FALSE
       ELSE exhausted

(* ------------------------------------------------------------------------ *)
(* Initial state: a constructed ConnectionManager with lifecycle handling   *)
(* initialised, in a host that is in any of its lifecycle states.           *)
(* ------------------------------------------------------------------------ *)
Init ==
  /\ state = DISCONNECTED
  /\ reconnectAttempt = 0
  /\ reconnectTimer = FALSE
  /\ heartbeatTimer = FALSE
  /\ lastHeartbeat = FALSE
  /\ pendingActions = {}
  /\ completedActionIds = {}
  /\ completedActionOrder = <<>>
  /\ targetUrl = NULL
  /\ authClientId = NULL
  /\ authDeviceId = 0
  /\ currentAppState \in AppStates
  /\ reconnectSuspended = FALSE
  /\ actionNonce = 0
  /\ sock = NoSocket
  /\ liveReconnect = 0
  /\ liveHeartbeat = FALSE
  /\ liveActionTimers = {}
  /\ storage = 0
  /\ tasks = <<>>
  /\ lastOp = Op("constructor", "", 0)
  /\ events = <<>>
  /\ resultLog = <<>>
  /\ timeoutLog = <<>>
  /\ disconnectedUpTo = 0
  /\ background = "none"
  /\ burstOpens = 0
  /\ abandoned = {}
  /\ idle = FALSE
  /\ exhausted = FALSE
  /\ delays = <<>>
  /\ lastAuth = NULL
  /\ clock = [since |-> 0, due |-> 0]
  /\ lastFrame = NoFrame
  /\ signedOut = FALSE

(* ------------------------------------------------------------------------ *)
(* Caller operations                                                        *)
(* ------------------------------------------------------------------------ *)
\* connect(rawUrl)
Connect(rawUrl) ==
  LET trimmed == Trim(rawUrl)
      ss == SetState(state, ERROR, reconnectAttempt)
      url == ToWsUrl(trimmed)
      crt == ClearReconnectTimer(reconnectTimer, liveReconnect)
      cpa == ClearPendingActions(pendingActions, liveActionTimers)
      os == OpenSocket(CONNECTING, state, 0, url, sock)
  IN /\ background' = IF background = "none" THEN "none" ELSE "touched"
     /\ burstOpens' = 0
     /\ IF IsEmptyString(trimmed) THEN
          /\ state' = ss.state
          /\ Record(Op("connect", "", 0),
                    <<ClientError("IP address is required.")>> \o ss.evs)
          /\ UNCHANGED <<reconnectAttempt, reconnectTimer, pendingActions, targetUrl,
                         reconnectSuspended, sock, liveReconnect, liveActionTimers>>
        ELSE
          /\ targetUrl' = url
          /\ reconnectAttempt' = 0
          /\ reconnectSuspended' = FALSE
          /\ reconnectTimer' = crt.field
          /\ liveReconnect' = crt.live
          /\ pendingActions' = cpa.pending
          /\ liveActionTimers' = cpa.live
          /\ state' = os.state
          /\ sock' = os.sock
          /\ Record(Op("connect", "", 0), crt.evs \o cpa.evs \o os.evs)
     /\ UNCHANGED <<heartbeatTimer, lastHeartbeat, completedActionIds, completedActionOrder,
                    authClientId, authDeviceId, currentAppState, actionNonce,
                    liveHeartbeat, storage, tasks, disconnectedUpTo>>

\* disconnect()
Disconnect ==
  LET crt == ClearReconnectTimer(reconnectTimer, liveReconnect)
      cht == ClearHeartbeatTimer(heartbeatTimer, liveHeartbeat)
      cpa == ClearPendingActions(pendingActions, liveActionTimers)
      ss == SetState(state, DISCONNECTED, reconnectAttempt)
  IN /\ reconnectSuspended' = TRUE
     /\ reconnectTimer' = crt.field
     /\ liveReconnect' = crt.live
     /\ heartbeatTimer' = cht.field
     /\ liveHeartbeat' = cht.live
     /\ pendingActions' = cpa.pending
     /\ liveActionTimers' = cpa.live
     /\ targetUrl' = NULL
     /\ sock' = SocketDisconnect(sock)
     /\ state' = ss.state
     /\ Record(Op("disconnect", "", 0),
               crt.evs \o cht.evs \o cpa.evs \o <<SockDisconnect(0, "")>> \o ss.evs)
     /\ disconnectedUpTo' = actionNonce
     /\ burstOpens' = 0
     /\ UNCHANGED <<reconnectAttempt, lastHeartbeat, completedActionIds, completedActionOrder,
                    authClientId, authDeviceId, currentAppState, actionNonce,
                    storage, tasks, background>>

(* ------------------------------------------------------------------------ *)
(* Transport events                                                         *)
(* ------------------------------------------------------------------------ *)
\* a transport-opened handler that never re-authenticates
ReAuth_Never(cur, clientId, deviceId, s) == <<>>

\* the trace of the re-AUTH that follows a transport-opened event, when
\* ensureAuthState resolves without suspending
ReAuth(cur, clientId, deviceId, s) ==
  IF clientId = NULL \/ cur # CONNECTED \/ deviceId = 0 THEN <<>>
  ELSE Send(s, SockSend("AUTH", clientId, deviceId)).evs

\* ensureAuthState suspends on getOrCreateDeviceId
EnsureSuspends(cur, clientId, deviceId) ==
  clientId # NULL /\ cur = CONNECTED /\ deviceId = 0

NewTask(kind, clientId) == [kind |-> kind, clientId |-> clientId, pc |-> "getItem", created |-> 0]

\* a transport-opened handler that does not reset the attempt counter
HandleSocketConnectedUpTo_KeepsAttempt(limit) ==
  LET ss == SetState(state, CONNECTED, reconnectAttempt)
      opened == [sock EXCEPT !.st = "open"]
      sht == StartHeartbeatTimer(heartbeatTimer, liveHeartbeat)
  IN /\ sock.st = "opening"
     /\ EnsureSuspends(ss.state, authClientId, authDeviceId) => Len(tasks) < limit
     /\ sock' = opened
     /\ reconnectAttempt' = reconnectAttempt
     /\ state' = ss.state
     /\ lastHeartbeat' = TRUE
     /\ heartbeatTimer' = sht.field
     /\ liveHeartbeat' = sht.live
     /\ tasks' = IF EnsureSuspends(ss.state, authClientId, authDeviceId)
                   THEN Append(tasks, NewTask("ensureAuthState", NULL))
                   ELSE tasks
     /\ Record(Op("transportOpened", "", 0),
               ss.evs \o <<OnConnected, OnHeartbeat>> \o sht.evs
                 \o ReAuth(ss.state, authClientId, authDeviceId, opened))
     /\ burstOpens' = 0
     /\ UNCHANGED <<reconnectTimer, pendingActions, completedActionIds, completedActionOrder,
                    targetUrl, authClientId, authDeviceId, currentAppState,
                    reconnectSuspended, actionNonce, liveReconnect, liveActionTimers,
                    storage, disconnectedUpTo, background>>

\* handleSocketConnected (onConnected of the transport); limit bounds the
\* identity resolutions the specification lets be suspended at once
HandleSocketConnectedUpTo(limit) ==
  LET ss == SetState(state, CONNECTED, 0)
      opened == [sock EXCEPT !.st = "open"]
      sht == StartHeartbeatTimer(heartbeatTimer, liveHeartbeat)
  IN /\ sock.st = "opening"
     /\ EnsureSuspends(ss.state, authClientId, authDeviceId) => Len(tasks) < limit
     /\ sock' = opened
     /\ reconnectAttempt' = 0
     /\ state' = ss.state
     /\ lastHeartbeat' = TRUE
     /\ heartbeatTimer' = sht.field
     /\ liveHeartbeat' = sht.live
     /\ tasks' = IF EnsureSuspends(ss.state, authClientId, authDeviceId)
                   THEN Append(tasks, NewTask("ensureAuthState", NULL))
                   ELSE tasks
     /\ Record(Op("transportOpened", "", 0),
               ss.evs \o <<OnConnected, OnHeartbeat>> \o sht.evs
                 \o ReAuth(ss.state, authClientId, authDeviceId, opened))
     /\ burstOpens' = 0
     /\ UNCHANGED <<reconnectTimer, pendingActions, completedActionIds, completedActionOrder,
                    targetUrl, authClientId, authDeviceId, currentAppState,
                    reconnectSuspended, actionNonce, liveReconnect, liveActionTimers,
                    storage, disconnectedUpTo, background>>

HandleSocketConnected == HandleSocketConnectedUpTo(MaxTasks)

\* handleSocketDisconnected (onDisconnected of the transport)
HandleSocketDisconnected ==
  LET cht == ClearHeartbeatTimer(heartbeatTimer, liveHeartbeat)
      ss == SetState(state, DISCONNECTED, reconnectAttempt)
      sr == ScheduleReconnect(state, reconnectAttempt, targetUrl, reconnectSuspended,
                              reconnectTimer, liveReconnect)
  IN /\ sock.st \in {"opening", "open", "failed"}
     /\ sock' = NoSocket
     /\ heartbeatTimer' = cht.field
     /\ liveHeartbeat' = cht.live
     /\ IF reconnectSuspended THEN
          /\ state' = ss.state
          /\ Record(Op("transportClosed", "", 0), <<OnDisconnected>> \o cht.evs \o ss.evs)
          /\ UNCHANGED <<reconnectAttempt, reconnectTimer, liveReconnect>>
        ELSE
          /\ state' = sr.state
          /\ reconnectAttempt' = sr.attempt
          /\ reconnectTimer' = sr.field
          /\ liveReconnect' = sr.live
          /\ Record(Op("transportClosed", "", 0), <<OnDisconnected>> \o cht.evs \o sr.evs)
     /\ UNCHANGED <<lastHeartbeat, pendingActions, completedActionIds, completedActionOrder,
                    targetUrl, authClientId, authDeviceId, currentAppState,
                    reconnectSuspended, actionNonce, liveActionTimers, storage, tasks,
                    disconnectedUpTo, background, burstOpens>>

\* handleSocketError (onError of the transport); the failed transport can
\* only close afterwards
HandleSocketError ==
  LET ss == SetState(state, ERROR, reconnectAttempt)
  IN /\ sock.st \in {"opening", "open"}
     /\ sock' = [sock EXCEPT !.st = "failed"]
     /\ state' = ss.state
     /\ Record(Op("transportErrored", "", 0),
               <<PayloadError("SOCKET_ERROR", "WebSocket connection error.")>> \o ss.evs)
     /\ UNCHANGED <<reconnectAttempt, reconnectTimer, heartbeatTimer, lastHeartbeat,
                    pendingActions, completedActionIds, completedActionOrder, targetUrl,
                    authClientId, authDeviceId, currentAppState, reconnectSuspended,
                    actionNonce, liveReconnect, liveHeartbeat, liveActionTimers,
                    storage, tasks, disconnectedUpTo, background, burstOpens>>

(* ------------------------------------------------------------------------ *)
(* Timer callbacks                                                          *)
(* ------------------------------------------------------------------------ *)
\* the reconnect timeout armed by scheduleReconnect fires
ReconnectTimerFires ==
  LET os == OpenSocket(RECONNECTING, state, reconnectAttempt, targetUrl, sock)
  IN /\ liveReconnect # 0
     /\ liveReconnect' = 0
     /\ state' = os.state
     /\ sock' = os.sock
     /\ Record(Op("reconnectTimer", "", 0), os.evs)
     /\ burstOpens' = IF targetUrl # NULL THEN burstOpens + 1 ELSE burstOpens
     /\ UNCHANGED <<reconnectAttempt, reconnectTimer, heartbeatTimer, lastHeartbeat,
                    pendingActions, completedActionIds, completedActionOrder, targetUrl,
                    authClientId, authDeviceId, currentAppState, reconnectSuspended,
                    actionNonce, liveHeartbeat, liveActionTimers, storage, tasks, disconnectedUpTo, background>>

\* the values Date.now() - lastHeartbeat can have when the heartbeat interval
\* fires: within the check period, at the threshold, just past it, far past it
Elapsed ==
  { HEARTBEAT_CHECK_INTERVAL_MS, HEARTBEAT_TIMEOUT_MS, HEARTBEAT_TIMEOUT_MS + 1,
    HEARTBEAT_TIMEOUT_MS + HEARTBEAT_CHECK_INTERVAL_MS }

\* isStale of the interval callback
IsStale_AtThreshold(elapsed) == elapsed >= HEARTBEAT_TIMEOUT_MS

IsStale(elapsed) == elapsed > HEARTBEAT_TIMEOUT_MS

HeartbeatTimerFires_ErrorLast(elapsed) ==
  LET cht == ClearHeartbeatTimer(heartbeatTimer, liveHeartbeat)
      sr == ScheduleReconnect(state, reconnectAttempt, targetUrl, reconnectSuspended,
                              reconnectTimer, liveReconnect)
  IN /\ liveHeartbeat
     /\ IF ~lastHeartbeat \/ ~IsStale(elapsed) THEN
          /\ Record(Op("heartbeatTimer", "", 0), <<>>)
          /\ UNCHANGED <<state, reconnectAttempt, reconnectTimer, heartbeatTimer, sock,
                         liveReconnect, liveHeartbeat>>
        ELSE
          /\ heartbeatTimer' = cht.field
          /\ liveHeartbeat' = cht.live
          /\ sock' = SocketDisconnect(sock)
          /\ state' = sr.state
          /\ reconnectAttempt' = sr.attempt
          /\ reconnectTimer' = sr.field
          /\ liveReconnect' = sr.live
          /\ Record(Op("heartbeatTimer", "", 0),
                    cht.evs
                      \o <<SockDisconnect(HEARTBEAT_CLOSE_CODE, "Heartbeat timeout")>>
                      \o sr.evs \o <<ClientError("Heartbeat timeout. Reconnecting.")>>)
     /\ UNCHANGED <<lastHeartbeat, pendingActions, completedActionIds, completedActionOrder,
                    targetUrl, authClientId, authDeviceId, currentAppState,
                    reconnectSuspended, actionNonce, liveActionTimers, storage, tasks,
                    disconnectedUpTo, background, burstOpens>>

\* the heartbeat interval armed by startHeartbeatTimer fires when
\* Date.now() - lastHeartbeat is elapsed
HeartbeatTimerFires(elapsed) ==
  LET cht == ClearHeartbeatTimer(heartbeatTimer, liveHeartbeat)
      sr == ScheduleReconnect(state, reconnectAttempt, targetUrl, reconnectSuspended,
                              reconnectTimer, liveReconnect)
  IN /\ liveHeartbeat
     /\ IF ~lastHeartbeat \/ ~IsStale(elapsed) THEN
          /\ Record(Op("heartbeatTimer", "", 0), <<>>)
          /\ UNCHANGED <<state, reconnectAttempt, reconnectTimer, heartbeatTimer, sock,
                         liveReconnect, liveHeartbeat>>
        ELSE
          /\ heartbeatTimer' = cht.field
          /\ liveHeartbeat' = cht.live
          /\ sock' = SocketDisconnect(sock)
          /\ state' = sr.state
          /\ reconnectAttempt' = sr.attempt
          /\ reconnectTimer' = sr.field
          /\ liveReconnect' = sr.live
          /\ Record(Op("heartbeatTimer", "", 0),
                    <<ClientError("Heartbeat timeout. Reconnecting.")>> \o cht.evs
                      \o <<SockDisconnect(HEARTBEAT_CLOSE_CODE, "Heartbeat timeout")>>
                      \o sr.evs)
     /\ UNCHANGED <<lastHeartbeat, pendingActions, completedActionIds, completedActionOrder,
                    targetUrl, authClientId, authDeviceId, currentAppState,
                    reconnectSuspended, actionNonce, liveActionTimers, storage, tasks,
                    disconnectedUpTo, background, burstOpens>>

(* ------------------------------------------------------------------------ *)
(* Host lifecycle                                                           *)
(* ------------------------------------------------------------------------ *)
\* handleAppStateChange(nextState)
HandleAppStateChange(nextState) ==
  LET wasActive == currentAppState = "active"
      isActive == nextState = "active"
      crt == ClearReconnectTimer(reconnectTimer, liveReconnect)
      cht == ClearHeartbeatTimer(heartbeatTimer, liveHeartbeat)
      cpa == ClearPendingActions(pendingActions, liveActionTimers)
      ss == SetState(state, DISCONNECTED, reconnectAttempt)
      os == OpenSocket(CONNECTING, state, 0, targetUrl, sock)
  IN /\ nextState # currentAppState
     /\ currentAppState' = nextState
     /\ burstOpens' = 0
     /\ IF wasActive /\ ~isActive THEN
          /\ reconnectSuspended' = TRUE
          /\ reconnectTimer' = crt.field
          /\ liveReconnect' = crt.live
          /\ heartbeatTimer' = cht.field
          /\ liveHeartbeat' = cht.live
          /\ pendingActions' = cpa.pending
          /\ liveActionTimers' = cpa.live
          /\ sock' = SocketDisconnect(sock)
          /\ state' = ss.state
          /\ Record(Op("backgrounded", "", 0),
                    crt.evs \o cht.evs \o cpa.evs \o <<SockDisconnect(0, "")>> \o ss.evs)
          /\ background' = "quiet"
          /\ UNCHANGED reconnectAttempt
        ELSE IF ~wasActive /\ isActive /\ targetUrl # NULL THEN
          /\ reconnectSuspended' = FALSE
          /\ reconnectAttempt' = 0
          /\ state' = os.state
          /\ sock' = os.sock
          /\ Record(Op("foregrounded", "", 0), os.evs)
          /\ background' = "none"
          /\ UNCHANGED <<reconnectTimer, liveReconnect, heartbeatTimer, liveHeartbeat,
                         pendingActions, liveActionTimers>>
        ELSE
          /\ Record(Op(IF isActive THEN "foregrounded" ELSE "lifecycle", "", 0), <<>>)
          /\ background' = IF isActive THEN "none" ELSE background
          /\ UNCHANGED <<reconnectSuspended, reconnectAttempt, state, sock, reconnectTimer,
                         liveReconnect, heartbeatTimer, liveHeartbeat, pendingActions,
                         liveActionTimers>>
     /\ UNCHANGED <<lastHeartbeat, completedActionIds, completedActionOrder, targetUrl,
                    authClientId, authDeviceId, actionNonce, storage, tasks,
                    disconnectedUpTo>>

(* ------------------------------------------------------------------------ *)
(* Action dispatcher                                                        *)
(* ------------------------------------------------------------------------ *)
\* mapServerError(code) for a code that is already trimmed upper case
ServerErrorMessage(code) ==
  CASE code = "MAX_STEPS_EXCEEDED" -> "This macro is too large."
    [] code = "MAX_TEXT_LENGTH_EXCEEDED" -> "Text input exceeds allowed size."
    [] code = "COMMAND_EXECUTION_DISABLED" -> "Terminal commands are disabled on the desktop."
    [] code = "DEVICE_NOT_AUTHORIZED" -> "This device is not authorized. Please re-pair."
    [] OTHER -> "Unexpected desktop error."

\* validateLocalActionConstraints([step]): the error payload, or none
LocalConstraintError(step) ==
  IF 1 > MAX_ACTION_STEPS
    THEN <<PayloadError("MAX_STEPS_EXCEEDED", ServerErrorMessage("MAX_STEPS_EXCEEDED"))>>
  ELSE IF step.type = "text" /\ step.len > MAX_TEXT_STEP_LENGTH
    THEN <<PayloadError("MAX_TEXT_LENGTH_EXCEEDED",
                        ServerErrorMessage("MAX_TEXT_LENGTH_EXCEEDED"))>>
  ELSE <<>>

\* validateExecuteActionPayload({id, steps: [step]}): the error text, or NULL.
\* The minted id is a non-empty string and steps has one element, so only
\* validateStep(step, 0) can fail.
PayloadValidationError(step) ==
  IF step.type \notin {"shortcut", "text", "delay", "key", "command"}
    THEN "Step 0 has unsupported type."
  ELSE IF step.shaped THEN NULL
  ELSE CASE step.type = "shortcut" -> "Step 0 (shortcut) must include non-empty \"keys\" array."
         [] step.type = "text" -> "Step 0 (text) must include string field \"value\"."
         [] step.type = "delay" ->
              "Step 0 (delay) must include non-negative numeric field \"duration\"."
         [] step.type = "key" -> "Step 0 (key) must include string field \"key\"."
         [] step.type = "command" -> "Step 0 (command) must include string field \"command\"."

\* buildActionTimeoutResult(actionId)
BuildActionTimeoutResult(actionId) ==
  OnActionResult(actionId, "error", ACTION_TIMEOUT_MS, "Action timed out after 8 seconds.")

\* sendAction(action); limit bounds the ids the specification lets it mint
SendAction(action, limit) ==
  LET actionId == actionNonce + 1
      lce == LocalConstraintError(action)
      warn == IF action.type = "command"
                THEN <<OnWarning("Command execution may be disabled on desktop.")>>
                ELSE <<OnWarning(NULL)>>
      sent == Send(sock, SockSend("EXECUTE_ACTION", "", actionId))
  IN /\ actionNonce < limit
     /\ actionNonce' = actionId
     /\ IF lce # <<>> THEN
          /\ Record(Op("sendAction", action.type, actionId), lce)
          /\ UNCHANGED <<pendingActions, liveActionTimers>>
        ELSE IF PayloadValidationError(action) # NULL THEN
          /\ Record(Op("sendAction", action.type, actionId),
                    warn \o <<ClientError("Invalid EXECUTE_ACTION payload: "
                                            \o PayloadValidationError(action))>>)
          /\ UNCHANGED <<pendingActions, liveActionTimers>>
        ELSE IF ~sent.sent THEN
          /\ Record(Op("sendAction", action.type, actionId), warn \o sent.evs)
          /\ UNCHANGED <<pendingActions, liveActionTimers>>
        ELSE
          /\ pendingActions' = pendingActions \cup {actionId}
          /\ liveActionTimers' = liveActionTimers \cup {actionId}
          /\ Record(Op("sendAction", action.type, actionId),
                    warn \o sent.evs \o <<SetTimeout("action", ACTION_TIMEOUT_MS)>>)
     /\ UNCHANGED <<state, reconnectAttempt, reconnectTimer, heartbeatTimer, lastHeartbeat,
                    completedActionIds, completedActionOrder, targetUrl, authClientId,
                    authDeviceId, currentAppState, reconnectSuspended, sock, liveReconnect,
                    liveHeartbeat, storage, tasks, disconnectedUpTo,
                    background, burstOpens>>

\* the timeout callback with the result delivered before onActionTimeout
ActionTimerFires_ResultFirst(actionId) ==
  LET rpa == RemovePendingAction(pendingActions, liveActionTimers, actionId)
      mac == MarkActionCompleted(completedActionIds, completedActionOrder, actionId)
  IN /\ actionId \in liveActionTimers
     /\ IF ~rpa.removed THEN
          /\ liveActionTimers' = liveActionTimers \ {actionId}
          /\ Record(Op("actionTimer", "", actionId), <<>>)
          /\ UNCHANGED <<pendingActions, completedActionIds, completedActionOrder>>
        ELSE
          /\ pendingActions' = rpa.pending
          /\ liveActionTimers' = rpa.live
          /\ completedActionIds' = mac.ids
          /\ completedActionOrder' = mac.order
          /\ Record(Op("actionTimer", "", actionId),
                    rpa.evs \o <<BuildActionTimeoutResult(actionId), OnActionTimeout(actionId),
                      ClientError("Action " \o ToString(actionId)
                                    \o " timed out after 8 seconds.")>>)
     /\ UNCHANGED <<state, reconnectAttempt, reconnectTimer, heartbeatTimer, lastHeartbeat,
                    targetUrl, authClientId, authDeviceId, currentAppState,
                    reconnectSuspended, actionNonce, sock, liveReconnect, liveHeartbeat,
                    storage, tasks, disconnectedUpTo, background, burstOpens>>

\* the timeout armed by sendAction for actionId fires
ActionTimerFires(actionId) ==
  LET rpa == RemovePendingAction(pendingActions, liveActionTimers, actionId)
      mac == MarkActionCompleted(completedActionIds, completedActionOrder, actionId)
  IN /\ actionId \in liveActionTimers
     /\ IF ~rpa.removed THEN
          /\ liveActionTimers' = liveActionTimers \ {actionId}
          /\ Record(Op("actionTimer", "", actionId), <<>>)
          /\ UNCHANGED <<pendingActions, completedActionIds, completedActionOrder>>
        ELSE
          /\ pendingActions' = rpa.pending
          /\ liveActionTimers' = rpa.live
          /\ completedActionIds' = mac.ids
          /\ completedActionOrder' = mac.order
          /\ Record(Op("actionTimer", "", actionId),
                    rpa.evs \o <<OnActionTimeout(actionId), BuildActionTimeoutResult(actionId),
                      ClientError("Action " \o ToString(actionId)
                                    \o " timed out after 8 seconds.")>>)
     /\ UNCHANGED <<state, reconnectAttempt, reconnectTimer, heartbeatTimer, lastHeartbeat,
                    targetUrl, authClientId, authDeviceId, currentAppState,
                    reconnectSuspended, actionNonce, sock, liveReconnect, liveHeartbeat,
                    storage, tasks, disconnectedUpTo, background, burstOpens>>

(* ------------------------------------------------------------------------ *)
(* Inbound frames.  A frame is kept by what handleSocketMessage inspects:   *)
(* fmt is nontext (not a string), badjson (JSON.parse throws), falsy (parses*)
(* to null, 0, false or ""), scalar (parses to a truthy non-object) or      *)
(* object; an object has its type tag, the shape of its payload and, for    *)
(* ERROR, the four places a code is looked for.                             *)
(* ------------------------------------------------------------------------ *)
\* an optional string of a server frame: absent, or text with optional padding
Absent == [some |-> FALSE, pad |-> FALSE, body |-> ""]
Str(pad, body) == [some |-> TRUE, pad |-> pad, body |-> body]

Frame(fmt, type) ==
  [fmt |-> fmt, type |-> type, payload |-> "none", id |-> 0, status |-> "", time |-> 0,
   pcode |-> Absent, dcode |-> Absent, pmsg |-> Absent, dmsg |-> Absent]
Ping == Frame("object", "PING")
AuthSuccess == Frame("object", "AUTH_SUCCESS")
AuthFailure == Frame("object", "AUTH_FAILURE")
\* payload: none (not an object), malformed (extractActionResult fails), ok
ActionResult(payload, id, status) ==
  [Frame("object", "ACTION_RESULT") EXCEPT !.payload = payload, !.id = id,
                                            !.status = status, !.time = 42]
ErrorFrame(pcode, dcode, pmsg, dmsg) ==
  [Frame("object", "ERROR") EXCEPT !.pcode = pcode, !.dcode = dcode, !.pmsg = pmsg,
                                    !.dmsg = dmsg]

\* String.prototype.toUpperCase on the texts server frames carry here
ToUpperCase(body) ==
  CASE body = "command_execution_disabled" -> "COMMAND_EXECUTION_DISABLED"
    [] body = "unauthorized device" -> "UNAUTHORIZED DEVICE"
    [] body = "disk full" -> "DISK FULL"
    [] OTHER -> body

\* isAuthError(code): the lower-cased code includes "auth", "unauthorized"
\* or "not authorized"
IsAuthError(code) ==
  code \in {"UNAUTHORIZED DEVICE", "DEVICE_NOT_AUTHORIZED", "AUTH_REQUIRED"}

\* mapServerError(code): trim() drops the padding
MapServerError(raw) ==
  LET normalizedCode == ToUpperCase(raw.body)
  IN [code |-> IF normalizedCode # "" THEN normalizedCode ELSE "UNKNOWN_SERVER_ERROR",
      message |-> ServerErrorMessage(normalizedCode)]

\* a resolution that prefers the messages to the codes
RawServerCode_MessageFirst(f) ==
  IF f.pmsg.some THEN f.pmsg
  ELSE IF f.dmsg.some THEN f.dmsg
  ELSE IF f.pcode.some THEN f.pcode
  ELSE IF f.dcode.some THEN f.dcode
  ELSE Str(FALSE, "")

\* payloadCode ?? directCode ?? payloadMessage ?? directMessage ?? ""
RawServerCode(f) ==
  IF f.pcode.some THEN f.pcode
  ELSE IF f.dcode.some THEN f.dcode
  ELSE IF f.pmsg.some THEN f.pmsg
  ELSE IF f.dmsg.some THEN f.dmsg
  ELSE Str(FALSE, "")

\* handleSocketMessage(data)
HandleSocketMessage(f) ==
  LET quiet == /\ UNCHANGED <<lastHeartbeat, pendingActions,
                              liveActionTimers, completedActionIds, completedActionOrder>>
      mapped == MapServerError(RawServerCode(f))
      rpa == RemovePendingAction(pendingActions, liveActionTimers, f.id)
      mac == MarkActionCompleted(completedActionIds, completedActionOrder, f.id)
  IN /\ sock.st = "open"
     /\ IF f.fmt = "nontext" THEN
          /\ Record(Op("message", f.type, f.id), <<PayloadError("INVALID_SERVER_MESSAGE",
                                              "Unsupported message format from server.")>>)
          /\ quiet
        ELSE IF f.fmt = "badjson" THEN
          /\ Record(Op("message", f.type, f.id), <<ClientError("Failed to parse server message JSON.")>>)
          /\ quiet
        ELSE IF f.fmt = "falsy" THEN
          /\ Record(Op("message", f.type, f.id), <<>>)
          /\ quiet
        ELSE IF f.fmt = "object" /\ f.type = "PING" THEN
          /\ lastHeartbeat' = TRUE
          /\ Record(Op("message", f.type, f.id), <<OnHeartbeat>> \o Send(sock, SockSend("PONG", "", 0)).evs)
          /\ UNCHANGED <<pendingActions, liveActionTimers, completedActionIds,
                         completedActionOrder>>
        ELSE IF f.fmt = "object" /\ f.type = "AUTH_SUCCESS" THEN
          /\ Record(Op("message", f.type, f.id), <<OnAuthSuccess>>)
          /\ quiet
        ELSE IF f.fmt = "object" /\ f.type = "AUTH_FAILURE" THEN
          /\ Record(Op("message", f.type, f.id), <<OnAuthFailure>>)
          /\ quiet
        ELSE IF f.fmt = "object" /\ f.type = "ERROR" THEN
          /\ Record(Op("message", f.type, f.id), IF IsAuthError(mapped.code)
                                 THEN <<OnAuthFailure>>
                                 ELSE <<PayloadError(mapped.code, mapped.message)>>)
          /\ quiet
        ELSE IF f.fmt = "object" /\ f.type = "ACTION_RESULT" THEN
          IF f.payload # "ok" THEN
            /\ Record(Op("message", f.type, f.id), <<ClientError("Invalid ACTION_RESULT payload.")>>)
            /\ quiet
          ELSE IF f.id \in completedActionIds THEN
            /\ Record(Op("message", f.type, f.id), <<>>)
            /\ quiet
          ELSE IF ~rpa.removed THEN
            /\ Record(Op("message", f.type, f.id),
                      <<ClientError("Unknown ACTION_RESULT id: " \o ToString(f.id))>>)
            /\ quiet
          ELSE
            /\ pendingActions' = rpa.pending
            /\ liveActionTimers' = rpa.live
            /\ completedActionIds' = mac.ids
            /\ completedActionOrder' = mac.order
            /\ Record(Op("message", f.type, f.id),
                      rpa.evs \o <<OnActionResult(f.id, f.status, f.time, NULL)>>)
            /\ UNCHANGED <<lastHeartbeat>>
        ELSE
          /\ Record(Op("message", f.type, f.id), <<PayloadError("INVALID_SERVER_MESSAGE",
                                              "Invalid server message shape.")>>)
          /\ quiet
     /\ UNCHANGED <<state, reconnectAttempt, reconnectTimer, heartbeatTimer, targetUrl,
                    authClientId, authDeviceId, currentAppState, reconnectSuspended,
                    actionNonce, sock, liveReconnect, liveHeartbeat, storage, tasks,
                    disconnectedUpTo, background, burstOpens>>

\* the frames the server sends in the general specification
Frames ==
  { Ping, AuthSuccess, Frame("badjson", ""), Frame("object", "HELLO"),
    ErrorFrame(Str(FALSE, "COMMAND_EXECUTION_DISABLED"), Absent, Absent, Absent),
    ErrorFrame(Absent, Absent, Absent, Str(FALSE, "unauthorized device")),
    ActionResult("malformed", 0, "") }
  \cup { ActionResult("ok", id, "success") : id \in 1..MaxActions }

\* the texts an ERROR frame carries in the message scenario: absent, a known
\* code in lower case with padding, an unknown text, an auth-like text, blank
ErrorTexts ==
  { Absent, Str(TRUE, "command_execution_disabled"), Str(FALSE, "disk full"),
    Str(FALSE, "unauthorized device"), Str(TRUE, "") }

\* the frames the server sends in the message scenario: every format, the
\* five recognized types, an unknown and a missing type, ACTION_RESULT with
\* no payload object, a malformed and a well-formed payload, and ERROR with
\* every combination of ErrorTexts in its four places
ServerFrames ==
  { Frame("nontext", ""), Frame("badjson", ""), Frame("falsy", ""), Frame("scalar", ""),
    Frame("object", ""), Frame("object", "HELLO"), Ping, AuthSuccess, AuthFailure,
    ActionResult("none", 0, ""), ActionResult("malformed", 0, ""),
    ActionResult("ok", 1, "success"), ActionResult("ok", 1, "error") }
  \cup { ErrorFrame(pcode, dcode, pmsg, dmsg) :
           pcode \in ErrorTexts, dcode \in ErrorTexts, pmsg \in ErrorTexts, dmsg \in ErrorTexts }

(* ------------------------------------------------------------------------ *)
(* Authentication and device identity                                       *)
(* ------------------------------------------------------------------------ *)
\* createUuidV4(): an identifier no resolution holds yet
CreateUuid ==
  LET used == {storage, authDeviceId} \cup {tasks[i].created : i \in 1..Len(tasks)}
  IN CHOOSE u \in 1..(Cardinality(used) + 1) : u \notin used

RemoveTask(i) == [j \in 1..(Len(tasks) - 1) |-> IF j < i THEN tasks[j] ELSE tasks[j + 1]]

\* authenticate(clientId) up to its await; limit as in handleSocketConnected
AuthenticateUpTo(clientId, limit) ==
  LET trimmed == Trim(clientId)
  IN /\ IF IsEmptyString(trimmed) THEN
          /\ Record(Op("authenticate", "", 0), <<ClientError("Client ID is required.")>>)
          /\ UNCHANGED <<authClientId, tasks>>
        ELSE IF state # CONNECTED THEN
          /\ Record(Op("authenticate", "", 0), <<ClientError("WebSocket is not connected.")>>)
          /\ UNCHANGED <<authClientId, tasks>>
        ELSE
          /\ Len(tasks) < limit
          /\ authClientId' = Text(trimmed)
          /\ tasks' = Append(tasks, NewTask("authenticate", Text(trimmed)))
          /\ Record(Op("authenticate", "", 0), <<>>)
     /\ UNCHANGED <<state, reconnectAttempt, reconnectTimer, heartbeatTimer, lastHeartbeat,
                    pendingActions, completedActionIds, completedActionOrder, targetUrl,
                    authDeviceId, currentAppState, reconnectSuspended, actionNonce, sock,
                    liveReconnect, liveHeartbeat, liveActionTimers, storage,
                    disconnectedUpTo, background, burstOpens>>

Authenticate(clientId) == AuthenticateUpTo(clientId, MaxTasks)

\* hydrate() of the connection store, from its call of getOrCreateDeviceId()
Hydrate(limit) ==
  /\ Len(tasks) < limit
  /\ tasks' = Append(tasks, NewTask("hydrate", NULL))
  /\ Record(Op("hydrate", "", 0), <<>>)
  /\ UNCHANGED <<engine, sock, liveReconnect, liveHeartbeat, liveActionTimers,
                 storage, disconnectedUpTo, background, burstOpens>>

\* getOrCreateDeviceId() resumes from AsyncStorage.getItem with nothing
\* stored: it creates an identifier and suspends on AsyncStorage.setItem
IdentityCreates(i) ==
  /\ i \in 1..Len(tasks)
  /\ tasks[i].pc = "getItem"
  /\ storage = 0
  /\ tasks' = [tasks EXCEPT ![i].pc = "setItem", ![i].created = CreateUuid]
  /\ Record(Op("identity", "", 0), <<>>)
  /\ UNCHANGED <<engine, sock, liveReconnect, liveHeartbeat, liveActionTimers,
                 storage, disconnectedUpTo, background, burstOpens>>

\* getOrCreateDeviceId() returns (the stored identifier, or the created one
\* once setItem has stored it) and the suspended caller resumes: authenticate
\* after its await, or ensureAuthState and the then-callback of
\* handleSocketConnected, or hydrate, which drops the identifier
IdentityResolves(i) ==
  LET t == tasks[i]
      deviceId == IF t.pc = "getItem" THEN storage ELSE t.created
      clientId == IF t.kind = "authenticate" THEN t.clientId ELSE authClientId
  IN /\ i \in 1..Len(tasks)
     /\ t.pc = "getItem" => storage # 0
     /\ storage' = deviceId
     /\ tasks' = RemoveTask(i)
     /\ authDeviceId' = IF t.kind = "hydrate" THEN authDeviceId ELSE deviceId
     /\ Record(Op("identity", "", 0),
               IF clientId = NULL \/ t.kind = "hydrate" THEN <<>>
               ELSE Send(sock, SockSend("AUTH", clientId, deviceId)).evs)
     /\ UNCHANGED <<state, reconnectAttempt, reconnectTimer, heartbeatTimer, lastHeartbeat,
                    pendingActions, completedActionIds, completedActionOrder, targetUrl,
                    authClientId, currentAppState, reconnectSuspended, actionNonce, sock,
                    liveReconnect, liveHeartbeat, liveActionTimers, disconnectedUpTo, background, burstOpens>>

\* AsyncStorage rejects: the catch of authenticate / ensureAuthState, or of
\* hydrate, which reports nothing through the engine
IdentityFails(i) ==
  /\ i \in 1..Len(tasks)
  /\ tasks' = RemoveTask(i)
  /\ Record(Op("identity", "", 0),
            IF tasks[i].kind = "hydrate" THEN <<>>
            ELSE <<ClientError("Failed to load device identity.")>>)
  /\ UNCHANGED <<engine, sock, liveReconnect, liveHeartbeat, liveActionTimers,
                 storage, disconnectedUpTo, background, burstOpens>>

(* ------------------------------------------------------------------------ *)
(* Specifications.  The connection core is every operation that writes the  *)
(* connection state, the reconnect counter, the reconnect and heartbeat     *)
(* timers, the transport or the lifecycle gate.  The action dispatcher and  *)
(* the authentication operations write none of these (see their UNCHANGED), *)
(* so they are added to the core in specifications of their own.            *)
(* ------------------------------------------------------------------------ *)
Next ==
  \/ \E rawUrl \in RawUrls : Connect(rawUrl) /\ UNCHANGED scenario
  \/ Disconnect /\ UNCHANGED scenario
  \/ HandleSocketConnected /\ UNCHANGED scenario
  \/ HandleSocketDisconnected /\ UNCHANGED scenario
  \/ HandleSocketError /\ UNCHANGED scenario
  \/ ReconnectTimerFires /\ UNCHANGED scenario
  \/ \E elapsed \in Elapsed : HeartbeatTimerFires(elapsed) /\ UNCHANGED scenario
  \/ \E nextState \in AppStates : HandleAppStateChange(nextState) /\ UNCHANGED scenario

\* the connection core
Spec == Init /\ [][Next]_vars

\* an open attempt of the transport ends: it opens, or it closes
OpenAttemptEnds ==
  /\ sock.st = "opening"
  /\ (HandleSocketConnected \/ HandleSocketDisconnected)
  /\ UNCHANGED scenario

\* the connection core, where every open attempt of the transport ends and
\* an armed reconnect timeout fires unless it is cleared (setTimeout)
SpecFair ==
  /\ Spec
  /\ WF_vars(OpenAttemptEnds)
  /\ WF_vars(ReconnectTimerFires /\ UNCHANGED scenario)

NextActions ==
  \/ Next
  \/ \E action \in Steps : SendAction(action, MaxActions) /\ UNCHANGED scenario
  \/ \E f \in Frames : HandleSocketMessage(f) /\ UNCHANGED scenario
  \/ \E actionId \in liveActionTimers : ActionTimerFires(actionId) /\ UNCHANGED scenario

\* the connection core with the action dispatcher
SpecActions == Init /\ [][NextActions]_vars

NextAuth ==
  \/ Next
  \/ \E clientId \in RawClientIds : Authenticate(clientId) /\ UNCHANGED scenario
  \/ \E i \in 1..Len(tasks) : IdentityCreates(i) /\ UNCHANGED scenario
  \/ \E i \in 1..Len(tasks) : IdentityResolves(i) /\ UNCHANGED scenario
  \/ \E i \in 1..Len(tasks) : IdentityFails(i) /\ UNCHANGED scenario

\* the connection core with authentication and device identity
SpecAuth == Init /\ [][NextAuth]_vars

(* The burst scenario: after one connect(), only the transport and the      *)
(* reconnect timer act; each open attempt either opens and then closes, or  *)
(* closes without opening.  delays logs each reconnect timer armed.         *)
ScenarioUrl == Raw(FALSE, "", "192.168.1.20:8080")

ArmedDelays(evs) ==
  IdsOf(SelectSeq(evs, LAMBDA e : e.code = "reconnect"), "setTimeout")

NextBurst ==
  \/ lastOp.op = "constructor" /\ Connect(ScenarioUrl) /\ UNCHANGED scenario
  \/ HandleSocketConnected /\ UNCHANGED scenario
  \/ /\ Len(delays) < MaxBurstArms
     /\ HandleSocketDisconnected
     /\ delays' = delays \o [i \in 1..Len(ArmedDelays(events')) |->
                               [ms |-> ArmedDelays(events')[i],
                                afterOpen |-> sock.st = "open"]]
     /\ UNCHANGED <<lastAuth, clock, lastFrame, signedOut>>
  \/ ReconnectTimerFires /\ UNCHANGED scenario

SpecBurst == Init /\ [][NextBurst]_vars

(* The completed-window scenario: over one open transport the caller sends  *)
(* text actions one at a time; the server answers the newest id or repeats  *)
(* its answer to the first; the first timeouts may fire instead.            *)
ScenarioStep == Step("text", 3, TRUE)

NextWindow ==
  \/ lastOp.op = "constructor" /\ Connect(ScenarioUrl) /\ UNCHANGED scenario
  \/ HandleSocketConnected /\ UNCHANGED scenario
  \/ /\ sock.st = "open" /\ pendingActions = {}
     /\ SendAction(ScenarioStep, MaxWindowActions) /\ UNCHANGED scenario
  \/ \E id \in {1, actionNonce} \ {0} :
       HandleSocketMessage(ActionResult("ok", id, "success")) /\ UNCHANGED scenario
  \/ \E actionId \in liveActionTimers \cap 1..MaxWindowTimeouts :
       ActionTimerFires(actionId) /\ UNCHANGED scenario

SpecWindow == Init /\ [][NextWindow]_vars

(* The message scenario: one connection, opened once, on which the server   *)
(* sends any of ServerFrames until the transport drops.                     *)
NextMessages ==
  \/ targetUrl = NULL /\ Connect(ScenarioUrl) /\ UNCHANGED scenario
  \/ HandleSocketConnected /\ UNCHANGED scenario
  \/ sock.st = "open" /\ HandleSocketDisconnected /\ UNCHANGED scenario
  \/ \E f \in ServerFrames :
       /\ HandleSocketMessage(f)
       /\ lastFrame' = f
       /\ UNCHANGED <<delays, lastAuth, clock, signedOut>>

SpecMessages == Init /\ [][NextMessages]_vars

(* The session scenario: the caller connects to one server (or passes an   *)
(* empty address), authenticates under one client name, disconnects and     *)
(* connects again, while the transport opens and drops and identity         *)
(* resolutions resume.                                                      *)
ScenarioClientId == Raw(FALSE, "", "tapvolt-mobile")

NextSession ==
  \/ \E rawUrl \in {ScenarioUrl, Raw(FALSE, "", "")} : Connect(rawUrl) /\ UNCHANGED scenario
  \/ /\ Disconnect
     /\ signedOut' = TRUE
     /\ UNCHANGED <<delays, lastAuth, clock, lastFrame>>
  \/ HandleSocketConnected /\ UNCHANGED scenario
  \/ HandleSocketDisconnected /\ UNCHANGED scenario
  \/ ReconnectTimerFires /\ UNCHANGED scenario
  \/ /\ Authenticate(ScenarioClientId)
     /\ signedOut' = FALSE
     /\ UNCHANGED <<delays, lastAuth, clock, lastFrame>>
  \/ \E i \in 1..Len(tasks) : IdentityCreates(i) /\ UNCHANGED scenario
  \/ \E i \in 1..Len(tasks) : IdentityResolves(i) /\ UNCHANGED scenario
  \/ \E i \in 1..Len(tasks) : IdentityFails(i) /\ UNCHANGED scenario

SpecSession == Init /\ [][NextSession]_vars

(* The pending scenario: one server, well-formed steps and results; the     *)
(* host connects, disconnects and changes app state at will, the transport  *)
(* opens and drops, and every armed action timeout fires in the end unless  *)
(* it is cleared (setTimeout).                                              *)
NextPending ==
  \/ Connect(ScenarioUrl) /\ UNCHANGED scenario
  \/ Disconnect /\ UNCHANGED scenario
  \/ HandleSocketConnected /\ UNCHANGED scenario
  \/ HandleSocketDisconnected /\ UNCHANGED scenario
  \/ ReconnectTimerFires /\ UNCHANGED scenario
  \/ \E nextState \in AppStates : HandleAppStateChange(nextState) /\ UNCHANGED scenario
  \/ SendAction(ScenarioStep, MaxPendingActions) /\ UNCHANGED scenario
  \/ \E id \in 1..actionNonce :
       HandleSocketMessage(ActionResult("ok", id, "success")) /\ UNCHANGED scenario
  \/ \E actionId \in liveActionTimers : ActionTimerFires(actionId) /\ UNCHANGED scenario

SpecPending ==
  /\ Init /\ [][NextPending]_vars
  /\ \A actionId \in 1..MaxPendingActions :
       WF_vars(ActionTimerFires(actionId) /\ UNCHANGED scenario)

(* The identity scenario: after one connect(), the transport opens, drops   *)
(* once open and is reopened by the reconnect timer, while the store        *)
(* hydrates and the caller authenticates under two client names (or none),  *)
(* with up to MaxIdentityTasks identity resolutions suspended at once.      *)
ScenarioClientIds ==
  { Raw(FALSE, "", ""), Raw(TRUE, "", "tapvolt-mobile"), Raw(FALSE, "", "tapvolt-tablet") }

NextIdentity ==
  \/ targetUrl = NULL /\ Connect(ScenarioUrl) /\ UNCHANGED scenario
  \/ HandleSocketConnectedUpTo(MaxIdentityTasks) /\ UNCHANGED scenario
  \/ sock.st = "open" /\ HandleSocketDisconnected /\ UNCHANGED scenario
  \/ ReconnectTimerFires /\ UNCHANGED scenario
  \/ Hydrate(MaxIdentityTasks) /\ UNCHANGED scenario
  \/ \E clientId \in ScenarioClientIds :
       /\ AuthenticateUpTo(clientId, MaxIdentityTasks)
       /\ lastAuth' = Text(Trim(clientId))
       /\ UNCHANGED <<delays, clock, lastFrame, signedOut>>
  \/ \E i \in 1..Len(tasks) : IdentityCreates(i) /\ UNCHANGED scenario
  \/ \E i \in 1..Len(tasks) : IdentityResolves(i) /\ UNCHANGED scenario
  \/ \E i \in 1..Len(tasks) : IdentityFails(i) /\ UNCHANGED scenario

SpecIdentity == Init /\ [][NextIdentity]_vars

(* The heartbeat scenario: after one connect() the transport opens; time    *)
(* passes in half-periods of the heartbeat check, the interval fires every  *)
(* period and compares the clock with lastHeartbeat, and the server sends   *)
(* PING frames whenever it likes.  After a stale check the reconnect timer  *)
(* reopens the transport.  No caller, lifecycle or transport-close event.   *)
TickMs == HEARTBEAT_CHECK_INTERVAL_MS \div 2

\* half a check period passes
Tick ==
  /\ liveHeartbeat
  /\ clock.due > 0
  /\ clock.since < MaxSilenceTicks * TickMs
  /\ clock' = [since |-> clock.since + TickMs, due |-> clock.due - TickMs]
  /\ UNCHANGED <<engine, world, history, delays, lastAuth, lastFrame, signedOut>>

\* the interval is due: its callback runs with Date.now() - lastHeartbeat
CheckDue ==
  /\ clock.due = 0
  /\ HeartbeatTimerFires(clock.since)
  /\ clock' = [clock EXCEPT !.due = HEARTBEAT_CHECK_INTERVAL_MS]
  /\ UNCHANGED <<delays, lastAuth, lastFrame, signedOut>>

\* the transport opens: liveness is marked now and the interval restarted
OpenedNow ==
  /\ HandleSocketConnected
  /\ clock' = [since |-> 0, due |-> HEARTBEAT_CHECK_INTERVAL_MS]
  /\ UNCHANGED <<delays, lastAuth, lastFrame, signedOut>>

\* a PING frame arrives: liveness is marked now
PingNow ==
  /\ HandleSocketMessage(Ping)
  /\ clock' = [clock EXCEPT !.since = 0]
  /\ UNCHANGED <<delays, lastAuth, lastFrame, signedOut>>

NextHeartbeat ==
  \/ targetUrl = NULL /\ Connect(ScenarioUrl) /\ UNCHANGED scenario
  \/ OpenedNow
  \/ Tick
  \/ CheckDue
  \/ PingNow
  \/ ReconnectTimerFires /\ UNCHANGED scenario

\* time passes and a due interval fires
SpecHeartbeat ==
  Init /\ [][NextHeartbeat]_vars /\ WF_vars(Tick) /\ WF_vars(CheckDue)

(* ------------------------------------------------------------------------ *)
(* Properties                                                               *)
(* ------------------------------------------------------------------------ *)
\* the transition table of the connection state machine
TransitionTable ==
  { <<DISCONNECTED, CONNECTING>>, <<DISCONNECTED, ERROR>>,
    <<CONNECTING, DISCONNECTED>>, <<CONNECTING, CONNECTED>>,
    <<CONNECTING, RECONNECTING>>, <<CONNECTING, ERROR>>,
    <<CONNECTED, DISCONNECTED>>, <<CONNECTED, RECONNECTING>>, <<CONNECTED, ERROR>>,
    <<RECONNECTING, DISCONNECTED>>, <<RECONNECTING, CONNECTED>>, <<RECONNECTING, ERROR>>,
    <<ERROR, DISCONNECTED>>, <<ERROR, CONNECTING>>, <<ERROR, RECONNECTING>> }

Permitted(s, t) == s = t \/ <<s, t>> \in TransitionTable

StateChanges(evs) == SelectSeq(evs, LAMBDA e : e.cb = "onStateChange")

Has(evs, e) == \E i \in 1..Len(evs) : evs[i] = e

\* C1: every step changes the connection state from s to t with s = t or
\* (s, t) in the transition table, and every onStateChange notification of the
\* step reports such a t, the state the step leaves.  The dispatcher and the
\* authentication operations leave the state alone and notify no state.
C1_TransitionsFollowTable ==
  [][ /\ Permitted(state, state')
      /\ \A i \in 1..Len(StateChanges(events')) :
           /\ Permitted(state, StateChanges(events')[i].code)
           /\ StateChanges(events')[i].code = state' ]_vars

\* C1 witness: connect() on a connected engine asked for CONNECTED ->
\* CONNECTING, which the table rejects: the state stayed CONNECTED
C1_Witness ==
  /\ lastOp.op = "connect"
  /\ state = CONNECTED
  /\ Has(events, ClientError("Illegal state transition: CONNECTED -> CONNECTING"))

Count(log, id) == Cardinality({k \in 1..Len(log) : log[k] = id})

\* C2: for every action id minted by sendAction, onActionResult has been
\* called at most once and onActionTimeout at most once; a timeout also
\* delivers its synthetic result through onActionResult, so of a server result
\* and a timeout only the first is delivered.
C2_OutcomeAtMostOnce ==
  \A id \in 1..actionNonce :
    /\ Count(resultLog, id) <= 1
    /\ Count(timeoutLog, id) <= 1

\* C2 witness: the server's result for action 1 arrived after its timeout had
\* been delivered, and was not delivered
C2_Witness ==
  /\ lastOp = Op("message", "ACTION_RESULT", 1)
  /\ timeoutLog = <<1>>
  /\ resultLog = <<1>>
  /\ Callbacks(events) = <<>>

\* an ACTION_RESULT frame arrives in this step for an id whose outcome (server
\* result or timeout) had been delivered
LateResult ==
  /\ lastOp'.op = "message"
  /\ lastOp'.s = "ACTION_RESULT"
  /\ Count(resultLog, lastOp'.n) >= 1

\* the step calls no observer and changes no field, timer or transport
Silent ==
  /\ Callbacks(events') = <<>>
  /\ UNCHANGED <<engine, world>>

\* fewer than 500 outcomes have been delivered since the outcome of id
InWindow(id) ==
  \E k \in 1..Len(resultLog) : resultLog[k] = id /\ Len(resultLog) - k < 500

\* C3 as stated: once an outcome has been delivered for an id, every later
\* ACTION_RESULT frame with that id is dropped silently, however many other
\* actions have completed in between.
C3_LateResultSilentAlways == [][LateResult => Silent]_vars

\* C3 amended: once an outcome has been delivered for an id, a later
\* ACTION_RESULT frame with that id is dropped silently as long as fewer than
\* 500 other actions have completed in between.
C3_LateResultSilentInWindow == [][(LateResult /\ InWindow(lastOp'.n)) => Silent]_vars

\* C3 witness: the answer to action 1 was repeated after 499 other actions
\* had completed, and was dropped silently
C3_Witness ==
  /\ lastOp = Op("message", "ACTION_RESULT", 1)
  /\ Len(resultLog) = 500
  /\ resultLog[1] = 1
  /\ 1 \in completedActionIds
  /\ events = <<>>

\* C4: a disconnect() leaves no reconnect, heartbeat or per-action timer
\* live, so a timer that fires later was scheduled after it; and no
\* per-action timeout of an action sent before the last disconnect() calls an
\* observer.
C4_NoTimerSurvivesDisconnect ==
  [][ /\ lastOp'.op = "disconnect" =>
           liveReconnect' = 0 /\ ~liveHeartbeat' /\ liveActionTimers' = {}
      /\ (lastOp'.op = "actionTimer" /\ lastOp'.n <= disconnectedUpTo) =>
           Callbacks(events') = <<>> ]_vars

\* C4 witness: disconnect() cancelled the live timeout of action 1 and a live
\* reconnect timer
C4_Witness ==
  /\ lastOp.op = "disconnect"
  /\ Has(events, ClearTimeout("action", 1))
  /\ Has(events, ClearTimeout("reconnect", 1000))
  /\ timeoutLog = <<>>

\* C5: connect(x) followed at once by disconnect() leaves the state
\* DISCONNECTED, the reconnect attempt counter 0 and no reconnect, heartbeat
\* or per-action timer armed, from any reachable state and for any x.
C5_ConnectThenDisconnect ==
  [][ (lastOp.op = "connect" /\ lastOp'.op = "disconnect") =>
        /\ state' = DISCONNECTED
        /\ reconnectAttempt' = 0
        /\ liveReconnect' = 0 /\ ~liveHeartbeat' /\ liveActionTimers' = {} ]_vars

ExhaustedError == ClientError("Reconnect failed after 10 attempts.")

\* C6: the reconnect attempt counter never exceeds 10; the reconnect timer
\* opens at most 10 transports in a burst (since the last successful open,
\* caller operation or lifecycle event) without a successful open; the
\* transport-closed event that follows the 10th attempt emits 'Reconnect
\* failed after 10 attempts.', and with that error the state is ERROR and no
\* reconnect timer is armed.
C6_ReconnectCap ==
  /\ reconnectAttempt <= 10
  /\ burstOpens <= 10
  /\ ( /\ lastOp.op = "transportClosed"
       /\ reconnectAttempt = 10 /\ ~reconnectSuspended /\ targetUrl # NULL
       /\ ArmedDelays(events) = <<>> ) => Has(events, ExhaustedError)
  /\ Has(events, ExhaustedError) =>
       state = ERROR /\ liveReconnect = 0 /\ ArmedDelays(events) = <<>>

ClaimedDelay(k) ==
  CASE k = 1 -> 1000 [] k = 2 -> 2000 [] k = 3 -> 4000 [] k = 4 -> 8000 [] OTHER -> 10000

\* C7: a handler that arms the reconnect timer arms one, for an attempt k in
\* 1..10 (the counter it leaves), with delay min(1000 * 2^(k-1), 10000) ms:
\* 1000, 2000, 4000, 8000, then 10000 for k >= 5.
C7_BackoffDelay ==
  ArmedDelays(events) # <<>> =>
    /\ reconnectAttempt \in 1..10
    /\ ArmedDelays(events) = <<ClaimedDelay(reconnectAttempt)>>
    /\ ClaimedDelay(reconnectAttempt) = Min(1000 * 2 ^ (reconnectAttempt - 1), 10000)
    /\ liveReconnect = ClaimedDelay(reconnectAttempt)

\* C7 witness: the timer before attempt 5, the first the cap shortens
C7_Witness ==
  /\ reconnectAttempt = 5
  /\ ArmedDelays(events) = <<10000>>
  /\ state = RECONNECTING

ClaimedDelays == <<1000, 2000, 4000, 8000, 10000, 10000, 10000, 10000, 10000, 10000>>

\* the reconnect timers armed so far are no more than 10, with the delays
\* 1, 2, 4, 8, 10, 10, 10, 10, 10, 10 s; the close after the 10th attempt
\* ends in ERROR with the exhaustion error and no timer; no 11th open
BurstAsClaimed ==
  /\ Len(delays) <= 10
  /\ \A k \in 1..Len(delays) : delays[k].ms = ClaimedDelays[k]
  /\ burstOpens <= 10
  /\ (Len(delays) = 10 /\ lastOp.op = "transportClosed" /\ ArmedDelays(events) = <<>>) =>
       state = ERROR /\ Has(events, ExhaustedError) /\ liveReconnect = 0

\* C8 as stated: when every open attempt so far opened and then closed at
\* once, the burst is as claimed.
C8_OpenedThenClosedBurst ==
  (\A k \in 1..Len(delays) : delays[k].afterOpen) => BurstAsClaimed

\* C8 amended: when every open attempt so far closed without opening (no
\* transport-opened event), the burst is as claimed.
C8_NeverOpenedBurst ==
  (state # CONNECTED /\ \A k \in 1..Len(delays) : ~delays[k].afterOpen) => BurstAsClaimed

\* C8 witness: ten attempts, none opened, and the close after the 10th
C8_Witness ==
  /\ Len(delays) = 10
  /\ \A k \in 1..Len(delays) : ~delays[k].afterOpen
  /\ lastOp.op = "transportClosed"
  /\ state = ERROR
  /\ burstOpens = 10

\* C9: from a handled backgrounded event until the next foregrounded event
\* or connect(), neither the reconnect timer nor the heartbeat interval is
\* armed.
C9_NoTimersInBackground ==
  background = "quiet" => liveReconnect = 0 /\ ~liveHeartbeat

\* C9 witness: in the background an authenticate() continuation resumed and
\* found the transport closed; no timer is armed
C9_Witness ==
  /\ background = "quiet"
  /\ lastOp.op = "identity"
  /\ Has(events, ClientError("WebSocket is not connected."))
  /\ targetUrl # NULL

\* C10: a foregrounded event after a backgrounded event, with a target URL
\* remembered, makes exactly one accepted transition to CONNECTING, reported
\* with attempt 0, and opens exactly one transport; with none remembered it
\* changes nothing.
C10_ForegroundReopensOnce ==
  [][ (background # "none" /\ lastOp'.op = "foregrounded") =>
        IF targetUrl # NULL
          THEN /\ StateChanges(events') = <<OnStateChange(CONNECTING, 0)>>
               /\ state' = CONNECTING
               /\ SelectSeq(events', LAMBDA e : e.cb = "socket.connect")
                    = <<SockConnect(targetUrl)>>
               /\ sock'.st = "opening"
          ELSE /\ events' = <<>>
               /\ UNCHANGED <<state, reconnectAttempt, sock, liveReconnect, liveHeartbeat,
                              liveActionTimers>> ]_vars

\* C11: a backgrounded event handled in any state leaves the state
\* DISCONNECTED, the pending map empty, the reconnect-suspended flag set and
\* the target URL as it was; and no id that was pending when a backgrounded
\* event was handled has ever been handed to onActionResult or onActionTimeout.
C11_BackgroundedDrops ==
  [][ /\ lastOp'.op = "backgrounded" =>
           /\ state' = DISCONNECTED
           /\ pendingActions' = {}
           /\ reconnectSuspended'
           /\ targetUrl' = targetUrl
      /\ \A id \in abandoned' :
           Count(resultLog', id) = 0 /\ Count(timeoutLog', id) = 0 ]_vars

\* C11 witness: action 1 was pending at a backgrounded event; after the
\* foregrounded event reopened the transport the server answered it, and the
\* answer was refused as unknown
C11_Witness ==
  /\ 1 \in abandoned
  /\ lastOp = Op("message", "ACTION_RESULT", 1)
  /\ Has(events, ClientError("Unknown ACTION_RESULT id: 1"))
  /\ targetUrl # NULL
  /\ resultLog = <<>> /\ timeoutLog = <<>>

\* C12: from a disconnect() until the caller's next connect(), the target URL
\* is forgotten, the state is DISCONNECTED, there is no transport and no
\* handler opens one: no reconnect timer or heartbeat check is left to fire,
\* the closed transport delivers no event, and backgrounded / foregrounded
\* events find no URL to reopen.
C12_DisconnectIsFinal ==
  idle =>
    /\ targetUrl = NULL
    /\ state = DISCONNECTED
    /\ sock = NoSocket
    /\ liveReconnect = 0 /\ ~liveHeartbeat
    /\ \A i \in 1..Len(events) : events[i].cb # "socket.connect"

\* C12 witness: a disconnect() while the reconnect timer was armed, then a
\* foregrounded event: it did nothing
C12_Witness ==
  /\ idle
  /\ lastOp.op = "foregrounded"
  /\ events = <<>>
  /\ reconnectAttempt > 0
  /\ state = DISCONNECTED

\* C13: in every reachable state, if the connection state is CONNECTED then
\* the heartbeat-check interval is armed.
C13_ConnectedHasHeartbeat ==
  state = CONNECTED => heartbeatTimer /\ liveHeartbeat

\* C13 witness: connect() on a connected engine was refused the transition to
\* CONNECTING and replaced the transport; the state is CONNECTED and the
\* interval armed by the earlier transport-opened event is still live
C13_Witness ==
  /\ state = CONNECTED
  /\ lastOp.op = "connect"
  /\ sock.st = "opening"
  /\ liveHeartbeat

\* C14: in every reachable state where the connection state is not CONNECTED
\* (ERROR reached through a transport-errored event or an empty connect(),
\* and RECONNECTING, included), the heartbeat-check interval is not armed.
C14_HeartbeatOnlyWhenConnected ==
  state # CONNECTED => ~liveHeartbeat

\* no reconnect timer, no heartbeat-check interval and no per-action timeout
\* is live, and the pending map is empty
NoLiveTimer ==
  /\ liveReconnect = 0
  /\ ~liveHeartbeat
  /\ liveActionTimers = {}
  /\ pendingActions = {}

\* C15: in every reachable state where the connection state is DISCONNECTED,
\* no timer is live: no reconnect timer, no heartbeat-check interval and no
\* per-action timeout (the pending map is empty).
C15_DisconnectedNoTimers ==
  state = DISCONNECTED => NoLiveTimer

\* C15 witness: a backgrounded event on a connected engine with action 1
\* pending cancelled the heartbeat interval and the action's timeout
C15_Witness ==
  /\ state = DISCONNECTED
  /\ lastOp.op = "backgrounded"
  /\ Has(events, ClearInterval("heartbeat", HEARTBEAT_CHECK_INTERVAL_MS))
  /\ Has(events, ClearTimeout("action", 1))
  /\ NoLiveTimer

\* C16: in every reachable state where the connection state is ERROR, no
\* timer is live: no reconnect timer, no heartbeat-check interval and no
\* per-action timeout.
C16_ErrorNoTimers ==
  state = ERROR => liveReconnect = 0 /\ ~liveHeartbeat /\ liveActionTimers = {}

\* C17: in every reachable state the ids in the pending map are disjoint
\* from the completed-id set.
C17_PendingDisjointCompleted ==
  pendingActions \cap completedActionIds = {}

\* C17 witness: actions 1 and 2 have completed (one answered, or timed out)
\* and action 3 has just been sent and is pending
C17_Witness ==
  /\ lastOp = Op("sendAction", "text", 3)
  /\ pendingActions = {3}
  /\ completedActionIds = {1, 2}

\* the ids in the FIFO queue of the completed window
QueueIds == {completedActionOrder[k] : k \in 1..Len(completedActionOrder)}

\* C18: the completed window never holds more than 500 ids; its membership
\* set holds exactly the ids in its FIFO queue; and an insert into a full
\* window (a step that delivers the outcome of an action while the window
\* holds 500 ids) removes from both the id that was inserted earliest, the
\* head of the queue, and appends the new id.
C18_CompletedWindowFifo ==
  [][ /\ Len(completedActionOrder') <= 500
      /\ Cardinality(completedActionIds') <= 500
      /\ completedActionIds' = {completedActionOrder'[k] : k \in 1..Len(completedActionOrder')}
      /\ (Len(resultLog') > Len(resultLog) /\ Len(completedActionOrder) = 500) =>
           /\ completedActionOrder' = Append(Tail(completedActionOrder), lastOp'.n)
           /\ completedActionIds' =
                (completedActionIds \ {Head(completedActionOrder)}) \cup {lastOp'.n}
           /\ Head(completedActionOrder) \notin completedActionIds' ]_vars

\* C18 witness: the 501st completion evicted id 1, the earliest inserted
C18_Witness ==
  /\ Len(resultLog) = 501
  /\ Len(completedActionOrder) = 500
  /\ Head(completedActionOrder) = 2
  /\ completedActionOrder[500] = 501
  /\ 1 \notin completedActionIds
  /\ completedActionIds = QueueIds

\* the error a rejected transition from s to t is reported with
IllegalTransition(s, t) == ClientError("Illegal state transition: " \o s \o " -> " \o t)

\* the rejected-transition errors among evs
Rejections(evs) ==
  SelectSeq(evs, LAMBDA e :
    \E s \in ConnectionState, t \in ConnectionState : e = IllegalTransition(s, t))

\* C19: a request for a transition the table disallows leaves the state
\* unchanged, delivers no onStateChange and emits exactly one onError with
\* code CLIENT_ERROR and message 'Illegal state transition: <from> -> <to>':
\* so does setState for every disallowed pair, and so does every handler run
\* in which a request is rejected, <from> being the state the run started in.
C19_RejectedTransition ==
  [][ /\ \A s \in ConnectionState, t \in ConnectionState :
           ~Permitted(s, t) =>
             SetState(s, t, reconnectAttempt) =
               [state |-> s, evs |-> <<IllegalTransition(s, t)>>]
      /\ Rejections(events') # <<>> =>
           /\ state' = state
           /\ StateChanges(events') = <<>>
           /\ Len(Rejections(events')) = 1
           /\ \E t \in ConnectionState :
                /\ ~Permitted(state, t)
                /\ Rejections(events')[1] = IllegalTransition(state, t) ]_vars

\* C19 witness: a transport-opened event handled in ERROR (after an empty
\* connect() during the open) asked for ERROR -> CONNECTED and was refused
C19_Witness ==
  /\ lastOp.op = "transportOpened"
  /\ state = ERROR
  /\ Rejections(events) = <<IllegalTransition(ERROR, CONNECTED)>>
  /\ StateChanges(events) = <<>>

\* the calls of socketService.connect among evs
Opens(evs) == SelectSeq(evs, LAMBDA e : e.cb = "socket.connect")

\* C20: after connect(x) with a non-empty trimmed x, called in any reachable
\* state, the state is CONNECTING, the reconnect attempt counter is 0, the
\* suspended flag is clear, no reconnect timer is armed, the pending map is
\* empty and one transport open has been started towards the normalized URL.
C20_ConnectResets ==
  [][ (lastOp'.op = "connect" /\ Opens(events') # <<>>) =>
        /\ state' = CONNECTING
        /\ reconnectAttempt' = 0
        /\ ~reconnectSuspended'
        /\ liveReconnect' = 0
        /\ pendingActions' = {}
        /\ Opens(events') = <<SockConnect("ws://192.168.1.20:8080")>>
        /\ sock' = [st |-> "opening", url |-> "ws://192.168.1.20:8080"]
        /\ targetUrl' = "ws://192.168.1.20:8080" ]_vars

\* C21: after a transport-opened event has been handled, the state is
\* CONNECTED, the reconnect attempt counter is 0, the liveness timestamp is
\* set and the heartbeat interval is armed; and onConnected is not fired by a
\* run that leaves a state other than CONNECTED.
C21_OpenedMeansConnected ==
  /\ lastOp.op = "transportOpened" =>
       /\ state = CONNECTED
       /\ reconnectAttempt = 0
       /\ lastHeartbeat
       /\ liveHeartbeat
  /\ Has(events, OnConnected) => state = CONNECTED

\* the AUTH frames among evs that the transport accepted
AuthFrames(evs) == SelectSeq(evs, LAMBDA e : e.cb = "socket.send" /\ e.code = "AUTH")

\* C22: an AUTH frame is handed to the transport only while the connection
\* state is CONNECTED: authenticate() called in another state sends nothing,
\* and a path resumed from device-identity resolution after the state has
\* stopped being CONNECTED sends no AUTH.
C22_AuthOnlyWhenConnected ==
  /\ AuthFrames(events) # <<>> => state = CONNECTED
  /\ (lastOp.op = "authenticate" /\ state # CONNECTED) =>
       \A i \in 1..Len(events) : events[i].cb # "socket.send"

\* C23: every AUTH frame the transport accepts carries the client name passed
\* to the most recent authenticate() call and the device id that the engine
\* holds as resolved, whether it is sent by authenticate() itself, by an
\* authenticate() that overlapped another, after a failed call, or by the
\* automatic re-AUTH after a reconnect.
C23_AuthCarriesLatestCall ==
  \A i \in 1..Len(AuthFrames(events)) :
    /\ AuthFrames(events)[i].msg = lastAuth
    /\ AuthFrames(events)[i].n = authDeviceId

\* C24: over any interleaving of concurrent device-identity resolutions, the
\* identifier is persisted at most once (once stored it is never replaced),
\* and every resolution that returns, returns the stored identifier.
C24_DeviceIdCreatedOnce ==
  [][ /\ storage # 0 => storage' = storage
      /\ (lastOp'.op = "identity" /\ Len(tasks') < Len(tasks) /\ storage # 0) =>
           authDeviceId' \in {authDeviceId, storage} ]_vars

HeartbeatError == ClientError("Heartbeat timeout. Reconnecting.")
HeartbeatClose == SockDisconnect(HEARTBEAT_CLOSE_CODE, "Heartbeat timeout")

\* the positions of e in evs
Positions(evs, e) == {i \in 1..Len(evs) : evs[i] = e}

\* C25: a heartbeat check that declares staleness delivers the onError
\* 'Heartbeat timeout. Reconnecting.' first; and when the run reports
\* RECONNECTING, that onStateChange comes after the error, with the close of
\* the transport (code 4000, reason 'Heartbeat timeout') between the two.
C25_StalenessErrorFirst ==
  (lastOp.op = "heartbeatTimer" /\ events # <<>>) =>
    /\ Positions(events, HeartbeatError) = {1}
    /\ Cardinality(Positions(events, HeartbeatClose)) = 1
    /\ \A k \in 1..Len(events) :
         (events[k].cb = "onStateChange" /\ events[k].code = RECONNECTING) =>
           \E j \in Positions(events, HeartbeatClose) : 1 < j /\ j < k

\* C25 witness: a stale check on a connected engine: the error, the interval
\* cancelled, the transport closed, RECONNECTING reported with attempt 1, and
\* the 1 s reconnect timer armed
C25_Witness ==
  /\ lastOp.op = "heartbeatTimer"
  /\ state = RECONNECTING
  /\ events = << HeartbeatError, ClearInterval("heartbeat", HEARTBEAT_CHECK_INTERVAL_MS),
                 HeartbeatClose, OnStateChange(RECONNECTING, 1),
                 SetTimeout("reconnect", 1000) >>

\* C26: once reconnect exhaustion has been reported, and until the caller
\* calls connect() or disconnect(), the state is ERROR and no handler opens a
\* transport, whatever transport, timer or lifecycle events occur.
C26_ExhaustionIsFinal ==
  exhausted =>
    /\ state = ERROR
    /\ Opens(events) = <<>>
    /\ sock = NoSocket

\* a stale check has just handed off to the reconnect scheduler: the error,
\* the close with code 4000, RECONNECTING, attempt 1 and the 1 s timer
StalenessDeclared ==
  /\ lastOp.op = "heartbeatTimer"
  /\ Has(events, HeartbeatError)
  /\ Has(events, HeartbeatClose)
  /\ state = RECONNECTING
  /\ reconnectAttempt = 1
  /\ liveReconnect = 1000
  /\ sock = NoSocket

\* C27: when the state is CONNECTED and more than 15 s have passed since the
\* last PING or transport open, then, time passing and the 1 s check firing,
\* and with no caller, lifecycle or transport-close event, either a PING
\* arrives or the engine emits the heartbeat-timeout error, closes the
\* transport with code 4000 / 'Heartbeat timeout' and is RECONNECTING with
\* attempt 1 and a 1 s reconnect timer; and no check declares staleness when
\* 15 s or less have passed since the last PING or transport open.
C27_StalenessDeclaredInTime ==
  /\ [][ (lastOp'.op = "heartbeatTimer" /\ events' # <<>>) =>
           clock.since > 15000 ]_vars
  /\ (state = CONNECTED /\ clock.since > 15000)
       ~> (StalenessDeclared \/ lastOp = Op("message", "PING", 0))

\* C27 witness: 16 s after the open with no PING, the 16th check declared
\* staleness
C27_Witness ==
  /\ StalenessDeclared
  /\ clock.since = 16000
  /\ events[1] = HeartbeatError

\* the handlers of a transport drop and of the automatic reconnect
DropAndReconnect ==
  {"transportErrored", "transportClosed", "heartbeatTimer", "reconnectTimer",
   "transportOpened"}

\* C28: every id in the pending map leaves it in the end (its timeout fires
\* if nothing else removes it first), and the step that removes it is a
\* matching ACTION_RESULT or its timeout, each delivering the one
\* onActionResult for the id, or a clear by disconnect(), a backgrounded
\* event or connect(), which delivers none; a transport drop and the
\* automatic reconnect leave the pending map and its timeouts as they are.
C28_PendingLeavesOnce ==
  /\ [][ /\ \A id \in pendingActions \ pendingActions' :
              \/ /\ lastOp' = Op("message", "ACTION_RESULT", id)
                 /\ Count(resultLog', id) = 1 /\ Count(timeoutLog', id) = 0
              \/ /\ lastOp' = Op("actionTimer", "", id)
                 /\ Count(resultLog', id) = 1 /\ Count(timeoutLog', id) = 1
              \/ /\ lastOp'.op \in {"disconnect", "backgrounded", "connect"}
                 /\ Count(resultLog', id) = 0 /\ Count(timeoutLog', id) = 0
         /\ lastOp'.op \in DropAndReconnect =>
              UNCHANGED <<pendingActions, liveActionTimers>>
         /\ pendingActions' \subseteq liveActionTimers' ]_vars
  /\ \A id \in 1..MaxPendingActions : (id \in pendingActions) ~> (id \notin pendingActions)

\* C28 witness: action 1 stayed pending through a transport drop and timed
\* out while the engine was reconnecting
C28_Witness ==
  /\ lastOp = Op("actionTimer", "", 1)
  /\ state = RECONNECTING
  /\ resultLog = <<1>> /\ timeoutLog = <<1>>
  /\ pendingActions = {}

\* C29: an action timeout that fires for a pending entry removes the entry,
\* records the id in the completed window and calls, in this order,
\* onActionTimeout(id), onActionResult({id, error, 8000}) and onError with
\* code CLIENT_ERROR; one that fires for an entry no longer pending changes
\* nothing and calls no observer.
C29_TimeoutOrder ==
  [][ lastOp'.op = "actionTimer" =>
        LET id == lastOp'.n
        IN IF id \in pendingActions THEN
             /\ pendingActions' = pendingActions \ {id}
             /\ id \in completedActionIds'
             /\ completedActionOrder'[Len(completedActionOrder')] = id
             /\ Callbacks(events') =
                  << OnActionTimeout(id),
                     OnActionResult(id, "error", 8000, "Action timed out after 8 seconds."),
                     ClientError("Action " \o ToString(id) \o " timed out after 8 seconds.") >>
           ELSE
             /\ Callbacks(events') = <<>>
             /\ UNCHANGED <<pendingActions, completedActionIds, completedActionOrder,
                            state, reconnectAttempt, resultLog, timeoutLog>> ]_vars

\* C29 witness: the timeout of the pending action 1 has fired
C29_Witness ==
  /\ lastOp = Op("actionTimer", "", 1)
  /\ Len(Callbacks(events)) = 3
  /\ 1 \in completedActionIds
  /\ 1 \notin pendingActions

\* a live action timeout always belongs to a pending entry
ActionTimersArePending == liveActionTimers \subseteq pendingActions

\* the frames handed to the transport among the events of a step
SentFrames(evs) == SelectSeq(evs, LAMBDA e : e.cb = "socket.send")

\* the errors emitted among the events of a step
Errors(evs) == SelectSeq(evs, LAMBDA e : e.cb = "onError")

\* sendAction returned null: it stored no pending entry for the id it minted
ReturnedNull == lastOp'.op = "sendAction" /\ lastOp'.n \notin pendingActions'

\* C30: a sendAction that returns null (the step was rejected, or the
\* transport is not open) sent no frame, created no pending entry and armed
\* no timeout, left the connection state, the reconnect attempt, the pending
\* map and the completed window as they were, and emitted exactly one
\* onError, which in the transport case is CLIENT_ERROR with the text
\* "WebSocket is not connected.".
C30_NullSendActionIsInert ==
  [][ ReturnedNull =>
        /\ SentFrames(events') = <<>>
        /\ \A i \in 1..Len(events') : events'[i].cb # "setTimeout"
        /\ UNCHANGED <<state, reconnectAttempt, pendingActions, liveActionTimers,
                       completedActionIds, completedActionOrder, sock,
                       liveReconnect, liveHeartbeat>>
        /\ Len(Errors(events')) = 1
        /\ \A i \in 1..Len(events') : events'[i].cb \in {"onError", "onWarning"}
        /\ LET e == Errors(events')[1]
           IN \/ /\ ~SocketIsOpen(sock)
                 /\ e = ClientError("WebSocket is not connected.")
              \/ /\ lastOp'.s # "command"
                 /\ \/ e.code = "MAX_TEXT_LENGTH_EXCEEDED"
                    \/ e = ClientError("Invalid EXECUTE_ACTION payload: "
                              \o "Step 0 (delay) must include non-negative numeric field \"duration\".") ]_vars

\* C30 witness: a well-formed command step was refused while the engine was
\* reconnecting and no transport was open
C30_Witness ==
  /\ lastOp = Op("sendAction", "command", 1)
  /\ state = RECONNECTING
  /\ pendingActions = {} /\ liveActionTimers = {}
  /\ Errors(events) = <<ClientError("WebSocket is not connected.")>>

\* C31: a well-formed ACTION_RESULT whose id is neither pending nor in the
\* completed window emits the one error CLIENT_ERROR "Unknown ACTION_RESULT
\* id: <id>", delivers no onActionResult, and leaves the pending map, its
\* timeouts and the completed window as they were.
C31_UnknownResultRejected ==
  [][ ( /\ lastOp'.op = "message" /\ lastOp'.s = "ACTION_RESULT"
        /\ lastOp'.n \in 1..MaxActions
        /\ lastOp'.n \notin pendingActions
        /\ lastOp'.n \notin completedActionIds )
      => /\ Callbacks(events') =
              <<ClientError("Unknown ACTION_RESULT id: " \o ToString(lastOp'.n))>>
         /\ resultLog' = resultLog
         /\ UNCHANGED <<pendingActions, liveActionTimers, completedActionIds,
                        completedActionOrder, state, reconnectAttempt>> ]_vars

\* C31 witness: the result of action 1 arrives on a new connection after a
\* backgrounded event cleared the action
C31_Witness ==
  /\ lastOp = Op("message", "ACTION_RESULT", 1)
  /\ abandoned = {1}
  /\ events = <<ClientError("Unknown ACTION_RESULT id: 1")>>
  /\ resultLog = <<>>

\* C32: a transport-opened event that leaves the engine CONNECTED while a
\* client name and a device id are remembered sends, by itself, exactly one
\* AUTH frame, carrying the remembered pair; a transport-opened event with no
\* client name remembered, or one that does not leave the engine CONNECTED,
\* sends no AUTH.
C32_ReAuthOnOpen ==
  [][ lastOp'.op = "transportOpened" =>
        IF state' = CONNECTED /\ authClientId # NULL /\ authDeviceId # 0
          THEN /\ AuthFrames(events') = <<SockSend("AUTH", authClientId, authDeviceId)>>
               /\ UNCHANGED <<authClientId, authDeviceId, tasks>>
          ELSE /\ AuthFrames(events') = <<>>
               /\ authClientId = NULL => tasks' = tasks ]_vars

\* C32 witness: a reconnect reopened the transport and the remembered pair
\* was sent again without a new authenticate() call
C32_Witness ==
  /\ lastOp.op = "transportOpened"
  /\ state = CONNECTED
  /\ AuthFrames(events) = <<SockSend("AUTH", "tapvolt-mobile", authDeviceId)>>
  /\ authDeviceId # 0
  /\ tasks = <<>>

\* the server frame types the engine recognizes
RecognizedTypes == {"PING", "AUTH_SUCCESS", "AUTH_FAILURE", "ERROR", "ACTION_RESULT"}

\* f is not a well-formed frame of a recognized type
Malformed(f) ==
  \/ f.fmt # "object"
  \/ f.type \notin RecognizedTypes
  \/ f.type = "ACTION_RESULT" /\ f.payload # "ok"

\* C33: every inbound frame that is not a well-formed frame of a recognized
\* type (non-text, malformed JSON, JSON of a falsy or non-object value, an
\* object without a recognized type, an ACTION_RESULT with a bad payload)
\* produces exactly one onError, whose code is INVALID_SERVER_MESSAGE.
C33_MalformedIsInvalidServerMessage ==
  [][ (lastOp'.op = "message" /\ Malformed(lastFrame')) =>
        /\ Len(Errors(events')) = 1
        /\ Errors(events')[1].code = "INVALID_SERVER_MESSAGE" ]_vars

\* the codes of the fixed table of server errors
KnownServerCodes ==
  {"MAX_STEPS_EXCEEDED", "MAX_TEXT_LENGTH_EXCEEDED", "COMMAND_EXECUTION_DISABLED",
   "DEVICE_NOT_AUTHORIZED"}

\* the code of an ERROR frame: the first present of payload.code, code,
\* payload.message and message, trimmed and upper-cased ("" when none is)
ResolvedCode(f) ==
  LET places == <<f.pcode, f.dcode, f.pmsg, f.dmsg>>
      present == {i \in 1..4 : places[i].some}
  IN IF present = {} THEN ""
     ELSE ToUpperCase(places[CHOOSE i \in present : \A j \in present : i <= j].body)

\* an ERROR frame has just been handled
ErrorFrameHandled == lastOp'.op = "message" /\ lastFrame'.fmt = "object" /\ lastFrame'.type = "ERROR"

\* an ERROR frame causes exactly one observer call, onAuthFailure when its
\* resolved code is auth-like and onError otherwise
OneSink ==
  /\ Len(Callbacks(events')) = 1
  /\ Callbacks(events')[1].cb = IF IsAuthError(ResolvedCode(lastFrame'))
                                  THEN "onAuthFailure" ELSE "onError"

\* C34 as stated: resolution by priority, exactly one of onAuthFailure and
\* onError, and for a resolved code outside the table that is not auth-like
\* onError receives UNKNOWN_SERVER_ERROR / "Unexpected desktop error.".
C34_UnknownCodeReplaced ==
  [][ ErrorFrameHandled =>
        /\ OneSink
        /\ ( /\ ResolvedCode(lastFrame') \notin KnownServerCodes
             /\ ~IsAuthError(ResolvedCode(lastFrame')) )
           => Callbacks(events') =
                <<PayloadError("UNKNOWN_SERVER_ERROR", "Unexpected desktop error.")>> ]_vars

\* C34: for every server ERROR frame the code is resolved by priority
\* payload.code, code, payload.message, message, trimmed and upper-cased;
\* the frame causes exactly one of onAuthFailure (auth-like code) and
\* onError; onError receives the resolved code itself, or
\* UNKNOWN_SERVER_ERROR when it is empty, with the table's message for a
\* table code and "Unexpected desktop error." for any other.
C34_ErrorFrameMapped ==
  [][ ErrorFrameHandled =>
        LET code == ResolvedCode(lastFrame')
        IN /\ OneSink
           /\ ~IsAuthError(code) =>
                Callbacks(events') =
                  << PayloadError(IF code = "" THEN "UNKNOWN_SERVER_ERROR" ELSE code,
                       CASE code = "MAX_STEPS_EXCEEDED" -> "This macro is too large."
                         [] code = "MAX_TEXT_LENGTH_EXCEEDED" -> "Text input exceeds allowed size."
                         [] code = "COMMAND_EXECUTION_DISABLED" ->
                              "Terminal commands are disabled on the desktop."
                         [] OTHER -> "Unexpected desktop error.") >>
           /\ UNCHANGED <<state, reconnectAttempt, pendingActions, completedActionIds>> ]_vars

\* C34 witness: an ERROR frame with no code, an unknown payload.message and
\* an auth-like message was reported under its payload.message
C34_Witness ==
  /\ lastOp.op = "message"
  /\ lastFrame = ErrorFrame(Absent, Absent, Str(FALSE, "disk full"),
                            Str(FALSE, "unauthorized device"))
  /\ events = <<PayloadError("DISK FULL", "Unexpected desktop error.")>>

\* C35: in every reachable state, a CONNECTED engine has reconnect attempt 0.
C35_ConnectedAttemptZero == state = CONNECTED => reconnectAttempt = 0

\* C35 witness: the transport opened on the first connection, before any
\* disconnect(), and the engine is CONNECTED
C35_Witness ==
  /\ state = CONNECTED /\ reconnectAttempt = 0
  /\ lastOp.op = "transportOpened"
  /\ Has(events, OnStateChange(CONNECTED, 0))
  /\ burstOpens = 0 /\ disconnectedUpTo = 0
  /\ liveReconnect = 0

\* C36: in every reachable state, a RECONNECTING engine has a reconnect
\* attempt between 1 and 10.
C36_ReconnectingAttemptCounted ==
  state = RECONNECTING => reconnectAttempt \in 1..MAX_RECONNECT_ATTEMPTS

\* C37: sendAction returns an id (the transport accepted an EXECUTE_ACTION
\* frame and a pending entry was created) only while the connection state is
\* CONNECTED; in every other state it returns null, sending no frame and
\* creating no entry.
C37_SendActionOnlyWhenConnected ==
  [][ (lastOp'.op = "sendAction" /\ state # CONNECTED) =>
        /\ lastOp'.n \notin pendingActions'
        /\ SentFrames(events') = <<>> ]_vars

\* C38: after disconnect(), no AUTH frame is sent on any later connection
\* until the caller calls authenticate() again, and the remembered client
\* name and device id do not survive the disconnect().
C38_DisconnectForgetsAuth ==
  /\ signedOut => (authClientId = NULL /\ authDeviceId = 0)
  /\ signedOut => AuthFrames(events) = <<>>

\* the caller or the host has just acted on a reconnecting engine
CallerIntervened == lastOp.op \in {"connect", "foregrounded"}

\* C39: when every open attempt of the transport ends in a transport-opened
\* or transport-closed event and armed timers fire, a reconnect burst
\* terminates: a RECONNECTING engine reaches CONNECTED, ERROR or
\* DISCONNECTED, unless the caller or the host keeps restarting the
\* connection (connect(), foregrounded) for ever.
C39_BurstTerminates ==
  (state = RECONNECTING) ~> (state \in {CONNECTED, ERROR, DISCONNECTED} \/ CallerIntervened)

\* C39 as stated: a RECONNECTING engine reaches CONNECTED, ERROR or
\* DISCONNECTED whatever the caller does meanwhile.
C39_BurstTerminatesWhateverTheCaller == (state = RECONNECTING) ~> (state \in {CONNECTED, ERROR, DISCONNECTED})

\* C39 witness: a burst ended in exhaustion after the 10th attempt closed
C39_Witness ==
  /\ lastOp.op = "transportClosed"
  /\ state = ERROR
  /\ reconnectAttempt = MAX_RECONNECT_ATTEMPTS
  /\ Has(events, OnStateChange(ERROR, MAX_RECONNECT_ATTEMPTS))
  /\ exhausted

\* the (state, attempt) pair an observer of onStateChange holds after a step
\* that notified it
LastNotified(evs) ==
  LET n == StateChanges(evs)
  IN <<n[Len(n)].code, n[Len(n)].n>>

\* C40: an observer that keeps only the last (state, attempt) pair delivered
\* by onStateChange agrees with the engine after every operation: the last
\* notification of an operation carries the state and the attempt counter
\* the operation leaves, and neither changes in an operation that notifies
\* nothing.
C40_ObserverTracksEngine ==
  [][ IF StateChanges(events') # <<>>
        THEN LastNotified(events') = <<state', reconnectAttempt'>>
        ELSE UNCHANGED <<state, reconnectAttempt>> ]_vars

====
